---- MODULE Spec2Model ----
(***************************************************************************)
(* Model of the build runner of ts-make (run.ts): rule table construction, *)
(* the memoised buildTarget / buildRule task graph, the job Semaphore, the *)
(* timestamp cache and the recipe error policy.                            *)
(*                                                                         *)
(* JavaScript runs every piece of code between two awaits atomically, so   *)
(* each action below is one such piece: it starts where a promise the      *)
(* code awaits has settled and ends at the next await.                     *)
(***************************************************************************)
EXTENDS Integers, Sequences, FiniteSets, TLC

\* ------------------------------------------------------------------------
\* Bounds
\* ------------------------------------------------------------------------
MaxJobs  == 2      \* opt.jobs is 1 or MaxJobs
MaxGoals == 2      \* a run names 1..MaxGoals goals
MaxTasks == 6      \* cap on the number of buildRule invocations of a run
MaxTime  == 2      \* initial file timestamps range over 0..MaxTime
MaxClients == 4    \* clients of the stand-alone Semaphore
MaxLines   == 2      \* recipe lines of one runRecipe call
MaxOps     == 2      \* assignments and undefine directives of one parse
MaxText    == 2      \* tokens of a text handed to expand
MaxHeaders == 2      \* rule headers of one makefile handed to addRule
MaxIncludes == 2     \* include directives of one makefile
MaxSource  == 4      \* lines of a text handed to parse
MaxScopes  == 2      \* entries of make.scopes

\* ------------------------------------------------------------------------
\* Names
\* ------------------------------------------------------------------------
WAIT    == ".WAIT"
PIPE    == "|"
Targets == {"T", "A", "B", "C"}
SpecialNames == {".NOTPARALLEL", ".PHONY", ".DELETE_ON_ERROR", ".PRECIOUS", ".SECONDARY"}
Files   == Targets \cup {WAIT}          \* the words buildTarget and modTime are called with
Names   == Files \cup SpecialNames

\* the file names and the patterns of the makefiles with pattern rules, and
\* how they are spelled: the stem of a match is a part of the spelling
FileNames    == {"foo.o", "foo.c", "foo.y"}
PatternNames == {"%.o", "f%.o", "%.c", "f%.c", "%.y", "%"}
Spell(name) ==
    CASE name = "foo.o" -> <<"f", "o", "o", ".o">>
      [] name = "foo.c" -> <<"f", "o", "o", ".c">>
      [] name = "foo.y" -> <<"f", "o", "o", ".y">>
      [] name = "%.o"   -> <<"%", ".o">>
      [] name = "f%.o"  -> <<"f", "%", ".o">>
      [] name = "%.c"   -> <<"%", ".c">>
      [] name = "f%.c"  -> <<"f", "%", ".c">>
      [] name = "%.y"   -> <<"%", ".y">>
      [] name = "%"     -> <<"%">>
      [] OTHER          -> <<name>>

\* ------------------------------------------------------------------------
\* Sequence helpers (Array.prototype.indexOf / slice, unique)
\* ------------------------------------------------------------------------
\* 1-based index of the first occurrence of x in s at or after from, 0 if none
RECURSIVE IndexFrom(_, _, _)
IndexFrom(s, x, from) ==
    IF from > Len(s) THEN 0
    ELSE IF s[from] = x THEN from
    ELSE IndexFrom(s, x, from + 1)

Range(s) == {s[i] : i \in 1..Len(s)}

\* slice(from, to) with 1-based inclusive bounds; empty when to < from
Slice(s, from, to) == IF to < from THEN <<>> ELSE SubSeq(s, from, to)

\* [...new Set(array)]: first occurrences, in order
RECURSIVE uniqueFrom(_, _)
uniqueFrom(s, acc) ==
    IF s = <<>> THEN acc
    ELSE CHOOSE r \in {uniqueFrom(rest, seen) :
                         rest \in {Tail(s)},
                         seen \in {IF Head(s) \in Range(acc) THEN acc
                                   ELSE Append(acc, Head(s))}} : TRUE

unique(s) == uniqueFrom(s, <<>>)

MinOf(S) == CHOOSE m \in S : \A x \in S : m <= x

\* ------------------------------------------------------------------------
\* Rule table: addRule / prepareRules (exact targets)
\* ------------------------------------------------------------------------
\* A RuleEntry is [targets, prerequisites, recipe, doubleColon, grouped] with
\* word lists already split; recipe is "none" (undefined), "empty" ([]) or
\* "cmds".  Rule objects live in a heap (a sequence) because addRule stores
\* the same Rule object under every target of a header and later headers
\* mutate it in place.  exact[t] = [array, refs]: refs = <<>> means no entry.
NoEntry == [array |-> FALSE, refs |-> <<>>]

EmptyTable == [heap |-> <<>>, exact |-> [n \in Names \cup FileNames |-> NoEntry],
               patternRules |-> <<>>, anythingRules |-> <<>>, knownTypes |-> {}]

\* t.includes('%')
IsWild(t) == \E k \in DOMAIN Spell(t) : Spell(t)[k] = "%"

RECURSIVE AddExact(_, _, _, _, _)
AddExact(tab, ts, id, entry, pre) ==
    IF ts = <<>> THEN tab
    ELSE
      LET t    == Head(ts)
          dest == tab.exact[t]
          rule == tab.heap[id]
          tab1 ==
            IF entry.doubleColon THEN
                IF dest.array
                THEN [tab EXCEPT !.exact[t].refs = Append(dest.refs, id)]
                ELSE [tab EXCEPT !.exact[t] = [array |-> TRUE, refs |-> <<id>>]]
            ELSE
              LET tab0 ==
                    IF dest.refs = <<>> \/ dest.array
                    THEN [tab EXCEPT !.exact[t] = [array |-> FALSE, refs |-> <<id>>]]
                    ELSE LET d == dest.refs[1] IN
                         [tab EXCEPT
                            !.heap[d].prerequisites = tab.heap[d].prerequisites \o pre.prerequisites,
                            !.heap[d].orderOnly     = tab.heap[d].orderOnly \o pre.orderOnly,
                            !.heap[d].recipe        = IF rule.recipe # "none" THEN rule.recipe
                                                      ELSE tab.heap[d].recipe]
              IN IF Len(pre.prerequisites) = 0
                 THEN [tab0 EXCEPT !.heap[tab0.exact[t].refs[1]].all = TRUE]
                 ELSE tab0
      IN AddExact(tab1, Tail(ts), id, entry, pre)

addRule(tab, entry) ==
    LET pipe == IndexFrom(entry.prerequisites, PIPE, 1)
        orderOnly     == IF pipe > 0 THEN Slice(entry.prerequisites, pipe + 1, Len(entry.prerequisites)) ELSE <<>>
        prerequisites == IF pipe > 0 THEN Slice(entry.prerequisites, 1, pipe - 1) ELSE entry.prerequisites
        id   == Len(tab.heap) + 1
        wild     == SelectSeq(entry.targets, IsWild)
        patterns == SelectSeq(wild, LAMBDA t : t # "%")
        rule == [id            |-> id,
                 targets       |-> IF wild = <<>> /\ entry.grouped THEN entry.targets ELSE <<>>,
                 prerequisites |-> prerequisites,
                 orderOnly     |-> orderOnly,
                 recipe        |-> entry.recipe,
                 terminal      |-> wild # <<>> /\ entry.doubleColon,
                 all           |-> FALSE]
        pre  == [prerequisites |-> prerequisites, orderOnly |-> orderOnly]
        tab1 == [tab EXCEPT
                    !.heap = Append(tab.heap, rule),
                    !.anythingRules = IF "%" \in Range(wild) THEN Append(@, id) ELSE @,
                    !.patternRules  = IF patterns # <<>>
                                      THEN Append(@, [patterns |-> patterns, value |-> id])
                                      ELSE @,
                    !.knownTypes    = @ \cup { SelectSeq(Spell(t), LAMBDA ch : ch # "%") :
                                                  t \in Range(patterns) }]
    IN AddExact(tab1, SelectSeq(entry.targets, LAMBDA t : ~IsWild(t)), id, entry, pre)

RECURSIVE prepareRules(_, _)
prepareRules(tab, rules) ==
    IF rules = <<>> THEN tab
    ELSE prepareRules(addRule(tab, Head(rules)), Tail(rules))

\* ------------------------------------------------------------------------
\* Makefiles the run is loaded with (make.rules and make.scopes)
\* ------------------------------------------------------------------------
Entry(ts, ps, rc) == [targets |-> ts, prerequisites |-> ps, recipe |-> rc,
                      doubleColon |-> FALSE, grouped |-> FALSE]
GroupedEntry(ts, ps, rc) == [Entry(ts, ps, rc) EXCEPT !.grouped = TRUE]
DoubleEntry(ts, ps, rc)  == [Entry(ts, ps, rc) EXCEPT !.doubleColon = TRUE]

NoExtra == [t \in Targets |-> <<>>]

\* T: A B .WAIT C
MkWait == [rules |-> << Entry(<<"T">>, <<"A", "B", WAIT, "C">>, "cmds"),
                        Entry(<<"A">>, <<>>, "cmds"),
                        Entry(<<"B">>, <<>>, "cmds"),
                        Entry(<<"C">>, <<>>, "cmds") >>,
           extra |-> NoExtra]

\* .NOTPARALLEL: T ;  T: A B | C
MkNotParallel == [rules |-> << Entry(<<".NOTPARALLEL">>, <<"T">>, "none"),
                               Entry(<<"T">>, <<"A", "B", PIPE, "C">>, "cmds"),
                               Entry(<<"A">>, <<>>, "cmds"),
                               Entry(<<"B">>, <<>>, "cmds"),
                               Entry(<<"C">>, <<>>, "cmds") >>,
                  extra |-> NoExtra]

\* T: A B ;  A: C ;  B: C   (C is reached along two paths)
MkDiamond == [rules |-> << Entry(<<"T">>, <<"A", "B">>, "cmds"),
                           Entry(<<"A">>, <<"C">>, "cmds"),
                           Entry(<<"B">>, <<"C">>, "cmds"),
                           Entry(<<"C">>, <<>>, "cmds") >>,
              extra |-> NoExtra]

\* A B &: C ;  T: A B
MkGrouped == [rules |-> << GroupedEntry(<<"A", "B">>, <<"C">>, "cmds"),
                           Entry(<<"T">>, <<"A", "B">>, "cmds"),
                           Entry(<<"C">>, <<>>, "cmds") >>,
              extra |-> NoExtra]

\* .DELETE_ON_ERROR: ;  .PRECIOUS: A ;  .SECONDARY: B ;  .PHONY: C ;  T: A B C
MkDelete == [rules |-> << Entry(<<".DELETE_ON_ERROR">>, <<>>, "none"),
                          Entry(<<".PRECIOUS">>, <<"A">>, "none"),
                          Entry(<<".SECONDARY">>, <<"B">>, "none"),
                          Entry(<<".PHONY">>, <<"C">>, "none"),
                          Entry(<<"T">>, <<"A", "B", "C">>, "cmds"),
                          Entry(<<"A">>, <<>>, "cmds"),
                          Entry(<<"B">>, <<>>, "cmds"),
                          Entry(<<"C">>, <<>>, "cmds") >>,
             extra |-> NoExtra]

\* T:: A ;  T:: B ;  A: | C   (two double-colon rules, each with its own
\* recipe; the prerequisite of the first is the deeper one)
MkDouble == [rules |-> << DoubleEntry(<<"T">>, <<"A">>, "cmds"),
                          DoubleEntry(<<"T">>, <<"B">>, "cmds"),
                          Entry(<<"A">>, <<PIPE, "C">>, "cmds"),
                          Entry(<<"B">>, <<>>, "cmds"),
                          Entry(<<"C">>, <<>>, "cmds") >>,
             extra |-> NoExtra]

\* .NOTPARALLEL: T ;  T: A   with  T: .EXTRA_PREREQS = B ;  A: ;  B:
MkSerialExtra == [rules |-> << Entry(<<".NOTPARALLEL">>, <<"T">>, "none"),
                               Entry(<<"T">>, <<"A">>, "cmds"),
                               Entry(<<"A">>, <<>>, "cmds"),
                               Entry(<<"B">>, <<>>, "cmds") >>,
                  extra |-> [NoExtra EXCEPT !["T"] = <<"B">>]]

\* T: A A | B   with  T: .EXTRA_PREREQS = C ;  A, B, C are source files
MkStamp == [rules |-> << Entry(<<"T">>, <<"A", "A", PIPE, "B">>, "cmds") >>,
            extra |-> [NoExtra EXCEPT !["T"] = <<"C">>]]

\* a file without rules: the stand-alone Semaphore is exercised on its own
MkNone == [rules |-> <<>>, extra |-> NoExtra]

\* .DELETE_ON_ERROR: ;  T: A B ;  A: T ;  B:   (T and A wait for each other)
MkCycle == [rules |-> << Entry(<<".DELETE_ON_ERROR">>, <<>>, "none"),
                         Entry(<<"T">>, <<"A", "B">>, "cmds"),
                         Entry(<<"A">>, <<"T">>, "cmds"),
                         Entry(<<"B">>, <<>>, "cmds") >>,
            extra |-> NoExtra]

\* T: T C ;  C:   (T lists itself)
MkSelf == [rules |-> << Entry(<<"T">>, <<"T", "C">>, "cmds"),
                        Entry(<<"C">>, <<>>, "cmds") >>,
           extra |-> NoExtra]

Makefiles == <<MkWait, MkNotParallel, MkDiamond, MkGrouped, MkDelete, MkDouble, MkSerialExtra,
               MkStamp, MkNone, MkCycle, MkSelf>>

IxSched == 1..6
IxTwice == 1..7
IxStamp == 8
IxNone  == 9
IxCycle == {10, 11}

\* ------------------------------------------------------------------------
\* State
\* ------------------------------------------------------------------------
VARIABLES
    make,       \* [table: exactRules and the Rule objects, extra: .EXTRA_PREREQS per target]
    goals,      \* goal list
    opt,        \* RunOptions: jobs, keepGoing, always, mode
    requested,  \* indices of the goals whose buildTarget call has been made
    visited,    \* visited map: target -> promise (set of buildRule tasks), {} = no entry
    tasks,      \* buildRule invocations, in creation order
    running,    \* Semaphore.running
    waiting,    \* Semaphore.waiting (task or client ids, FIFO)
    tree0,      \* the file system run() was first called on
    mtime,      \* file system: timestamp of each file, 0 = missing
    statCache,  \* statCache: file -> cached timestamp, -1 = no entry
    runStatus,  \* outcome of run(): "pending", "true", "false", "rejected"
    holders,    \* stand-alone Semaphore: locks granted to each client and not released
    pass,       \* 1 in the first run() call, 2 in the repeated one
    ex,         \* stand-alone expand call: store, counter, text with suspended references
    vm,         \* stand-alone variable records: the records, the Maps that refer to them, the views built
    gs,         \* stand-alone scopes: make.scopes as prepared, last getScope call
    sc,         \* stand-alone stat cache with assumeNew/assumeOld: cache, callbacks queued, last stamp read
    cp,         \* stand-alone parse of conditional lines: text, line index, ifdepth, error
    inc,        \* stand-alone include handling: directives, deferred includes, run status
    rt,         \* stand-alone rule table: headers read, files on disk, last getRule call
    core,       \* stand-alone MakefileCore: variables, the scope of T, directives read
    shell       \* stand-alone runRecipe call: recipe, options, position, lines spawned

vars == <<make, tree0, goals, opt, requested, visited, tasks, running, waiting,
          mtime, statCache, runStatus, holders, shell, pass, core, ex, rt, inc, cp, sc, gs, vm>>

exactRules == make.table.exact
heap       == make.table.heap

\* prerequisiteSet(exactRules['.' + name]).has(t)
specialHas(name, t) ==
    LET e == exactRules[name] IN
    /\ e.refs # <<>>
    /\ ~e.array
    /\ \/ heap[e.refs[1]].all
       \/ t \in Range(heap[e.refs[1]].prerequisites)

\* The Rule handed to buildRule
RuleOf(id, targets, prerequisites, orderOnly, recipe) ==
    [id |-> id, targets |-> targets, prerequisites |-> prerequisites,
     orderOnly |-> orderOnly, recipe |-> recipe]

\* getRule for a table without pattern rules and without .DEFAULT: a
\* double-colon list is returned as is; otherwise a fresh object is built from
\* the recipe-bearing exact rule (its targets field is not copied), or from
\* the prerequisites of a recipe-less exact rule with the recipe [].
getRule(target) ==
    LET exact == exactRules[target] IN
    IF exact.refs # <<>> /\ exact.array
    THEN [array |-> TRUE,
          rules |-> [i \in 1..Len(exact.refs) |->
                        LET r == heap[exact.refs[i]] IN
                        RuleOf(r.id, r.targets, r.prerequisites, r.orderOnly, r.recipe)]]
    ELSE IF exact.refs # <<>> /\ heap[exact.refs[1]].recipe # "none"
    THEN LET r == heap[exact.refs[1]] IN
         [array |-> FALSE,
          rules |-> << RuleOf(r.id, <<>>, r.prerequisites, r.orderOnly, r.recipe) >>]
    ELSE IF exact.refs # <<>>
    THEN LET r == heap[exact.refs[1]] IN
         [array |-> FALSE,
          rules |-> << RuleOf(0, <<>>, r.prerequisites, r.orderOnly, "empty") >>]
    ELSE [array |-> FALSE, rules |-> << RuleOf(0, <<>>, <<>>, <<>>, "empty") >>]

\* ------------------------------------------------------------------------
\* Pattern rules: findRule and getRule over a table with patterns
\* ------------------------------------------------------------------------
\* The regular expression of a pattern rule is ^pre(.*?)suf$ for the pattern
\* pre%suf (the headers modelled here declare one pattern each, so the
\* alternation has one branch).  Match is re.exec(target) # null and StemOf
\* is the captured group; the stems that occur are made of one-character
\* tokens, so Len is the stem's length.
PercentAt(p) == IndexFrom(Spell(p), "%", 1)

Match(p, target) ==
    LET sp  == Spell(p)
        st  == Spell(target)
        k   == PercentAt(p)
        suf == Len(sp) - k
    IN /\ k > 0
       /\ Len(st) >= Len(sp) - 1
       /\ Slice(st, 1, k - 1) = Slice(sp, 1, k - 1)
       /\ Slice(st, Len(st) - suf + 1, Len(st)) = Slice(sp, k + 1, Len(sp))

StemOf(p, target) ==
    LET sp == Spell(p)
        st == Spell(target)
        k  == PercentAt(p)
    IN Slice(st, k, Len(st) - (Len(sp) - k))

\* the name a spelling belongs to
Unspell(sp) ==
    IF \E n \in FileNames \cup PatternNames : Spell(n) = sp
    THEN CHOOSE n \in FileNames \cup PatternNames : Spell(n) = sp
    ELSE "other"

RECURSIVE Subst(_, _)
Subst(sp, stem) ==
    IF sp = <<>> THEN <<>>
    ELSE (IF Head(sp) = "%" THEN stem ELSE <<Head(sp)>>) \o Subst(Tail(sp), stem)

\* t.replaceAll('%', stem)
replacePercent(t, stem) == Unspell(Subst(Spell(t), stem))

\* fixPercent(list, stem)
fixPercent(list, stem) == [k \in DOMAIN list |-> replacePercent(list[k], stem)]

\* oughtExist is an async function: what the caller gets is a promise (of
\* whether an exact rule or the file exists), and findRule does not await it
oughtExist(tab, disk, file) ==
    [kind |-> "promise", value |-> tab.exact[file].refs # <<>> \/ file \in disk]

\* `!v`: only a plain false or undefined value is falsy, an object never is
falsy(v) == v.kind = "value" /\ ~v.value

\* the candidates whose stem has at least len characters, shortest stem
\* first, in the declared order among equal lengths
RECURSIVE byStemFrom(_, _)
byStemFrom(cands, len) ==
    IF \A k \in DOMAIN cands : Len(cands[k].stem) < len THEN <<>>
    ELSE SelectSeq(cands, LAMBDA c : Len(c.stem) = len) \o byStemFrom(cands, len + 1)

\* candidates.sort(...) leaves the candidates in the declared order
sortKeepsOrder(cands) == cands

\* candidates.sort((a, b) => a.stem.length - b.stem.length): a stable sort
sortByStem(cands) == byStemFrom(cands, 0)

NoRuleFound == [kind |-> "none", array |-> FALSE, refs |-> <<>>, stem |-> <<>>]

\* the candidates of findRule, in the order it tries them
candidatesOf(tab, target) ==
    LET matching == SelectSeq(tab.patternRules,
                        LAMBDA i : tab.heap[i.value].recipe # "none" /\ Match(i.patterns[1], target))
        withStem == [k \in DOMAIN matching |->
                        [id |-> matching[k].value, stem |-> StemOf(matching[k].patterns[1], target)]]
        anything == SelectSeq(tab.anythingRules, LAMBDA r : tab.heap[r].recipe # "none")
    IN sortByStem(withStem) \o [k \in DOMAIN anything |-> [id |-> anything[k], stem |-> Spell(target)]]

intermediatesOf(tab, disk, c) ==
    SelectSeq(tab.heap[c.id].prerequisites,
              LAMBDA i : IsWild(i) /\ falsy(oughtExist(tab, disk, replacePercent(i, c.stem))))

RECURSIVE findRule(_, _, _)
findRule(tab, disk, target) ==
    LET exact == tab.exact[target]
        cands == candidatesOf(tab, target)
        direct == SelectSeq(cands, LAMBDA c : intermediatesOf(tab, disk, c) = <<>>)
        chained == SelectSeq(cands, LAMBDA c :
                      /\ ~tab.heap[c.id].terminal
                      /\ \A k \in DOMAIN intermediatesOf(tab, disk, c) :
                            findRule(tab, disk, replacePercent(intermediatesOf(tab, disk, c)[k], c.stem)).kind # "none")
    IN IF exact.refs # <<>> /\ (exact.array \/ tab.heap[exact.refs[1]].recipe # "none")
       THEN [kind |-> "exact", array |-> exact.array, refs |-> exact.refs, stem |-> <<>>]
       ELSE IF direct # <<>>
       THEN [kind |-> "pattern", array |-> FALSE, refs |-> <<direct[1].id>>, stem |-> direct[1].stem]
       ELSE IF <<Spell(target)[Len(Spell(target))]>> \in tab.knownTypes
       THEN NoRuleFound
       ELSE IF chained # <<>>
       THEN [kind |-> "pattern", array |-> FALSE, refs |-> <<chained[1].id>>, stem |-> chained[1].stem]
       ELSE NoRuleFound

\* getRule over a table with pattern rules (no .DEFAULT rule): the
\* prerequisites of the matching recipe-less pattern rules and of a
\* recipe-less exact rule, then those of the rule findRule returns
getRuleOf(tab, disk, target) ==
    LET less == SelectSeq(tab.patternRules,
                    LAMBDA i : Match(i.patterns[1], target) /\ tab.heap[i.value].recipe = "none")
        RECURSIVE Gather(_, _)
        Gather(k, field) ==
            IF k > Len(less) THEN <<>>
            ELSE fixPercent(tab.heap[less[k].value][field], StemOf(less[k].patterns[1], target))
                 \o Gather(k + 1, field)
        exact == tab.exact[target]
        bare  == exact.refs # <<>> /\ ~exact.array /\ tab.heap[exact.refs[1]].recipe = "none"
        pre0  == Gather(1, "prerequisites") \o (IF bare THEN tab.heap[exact.refs[1]].prerequisites ELSE <<>>)
        oo0   == Gather(1, "orderOnly") \o (IF bare THEN tab.heap[exact.refs[1]].orderOnly ELSE <<>>)
        rule  == findRule(tab, disk, target)
    IN IF rule.kind = "none"
       THEN [array |-> FALSE, kind |-> "none", stem |-> <<>>,
             rules |-> << RuleOf(0, <<>>, pre0, oo0, "empty") >>]
       ELSE IF rule.array
       THEN [array |-> TRUE, kind |-> rule.kind, stem |-> <<>>,
             rules |-> [i \in 1..Len(rule.refs) |->
                          LET r == tab.heap[rule.refs[i]] IN
                          RuleOf(r.id, r.targets, r.prerequisites, r.orderOnly, r.recipe)]]
       ELSE LET r == tab.heap[rule.refs[1]] IN
            [array |-> FALSE, kind |-> rule.kind, stem |-> rule.stem,
             rules |-> << RuleOf(r.id, <<>>,
                                 pre0 \o fixPercent(r.prerequisites, rule.stem),
                                 oo0 \o fixPercent(r.orderOnly, rule.stem),
                                 r.recipe) >>]

\* ------------------------------------------------------------------------
\* Stand-alone rule table: headers are read one by one, then getRule is asked
\* ------------------------------------------------------------------------
\* a header as written in the makefile: lines = it is followed by recipe lines
Header(ts, ps, lines, dc) == [targets |-> ts, prerequisites |-> ps, lines |-> lines, doubleColon |-> dc]

\* the parser's RuleEntry for a header: recipe is always an array, empty when
\* the header has no ';' part, and addRecipeLine pushes the lines onto it
parseHeader(h) ==
    [targets |-> h.targets, prerequisites |-> h.prerequisites,
     recipe |-> IF h.lines THEN "cmds" ELSE "empty",
     doubleColon |-> h.doubleColon, grouped |-> FALSE]

\* what buildTarget got from getRule, per file name; kind "unasked" before
NoFound == [array |-> FALSE, kind |-> "unasked", stem |-> <<>>, rules |-> <<>>]

NoRules == [tab |-> EmptyTable, read |-> <<>>, disk |-> {}, goal |-> "",
            found |-> [n \in FileNames |-> NoFound]]

NewRules(disk) == [NoRules EXCEPT !.disk = disk]

\* one rule header is parsed and prepareRules hands it to addRule
AddHeader(h) ==
    /\ rt.goal = ""
    /\ Len(rt.read) < MaxHeaders
    /\ rt' = [rt EXCEPT !.tab = addRule(rt.tab, parseHeader(h)),
                        !.read = Append(rt.read, h)]
    /\ UNCHANGED <<vm, gs, sc, cp, inc, ex, core, pass, shell, make, tree0, goals, opt, requested, visited, tasks,
                   running, waiting, mtime, statCache, runStatus, holders>>

\* buildTarget(goal): the first visit of the goal, getRule(goal)
Find(goal) ==
    /\ rt.read # <<>>
    /\ rt.goal = ""
    /\ rt' = [rt EXCEPT !.goal = goal,
                        !.found[goal] = getRuleOf(rt.tab, rt.disk, goal)]
    /\ UNCHANGED <<vm, gs, sc, cp, inc, ex, core, pass, shell, make, tree0, goals, opt, requested, visited, tasks,
                   running, waiting, mtime, statCache, runStatus, holders>>

\* the prerequisites and order-only prerequisites of the rules got for t
prereqsFound(t) ==
    UNION { Range(rt.found[t].rules[k].prerequisites) \cup Range(rt.found[t].rules[k].orderOnly) :
              k \in DOMAIN rt.found[t].rules }

\* buildRule of a visited target calls buildTarget(p) for a prerequisite p:
\* the first visit of p, getRule(p)
FindPrerequisite(p) ==
    /\ rt.found[p].kind = "unasked"
    /\ \E t \in FileNames : rt.found[t].kind # "unasked" /\ p \in prereqsFound(t)
    /\ rt' = [rt EXCEPT !.found[p] = getRuleOf(rt.tab, rt.disk, p)]
    /\ UNCHANGED <<vm, gs, sc, cp, inc, ex, core, pass, shell, make, tree0, goals, opt, requested, visited, tasks,
                   running, waiting, mtime, statCache, runStatus, holders>>

\* ------------------------------------------------------------------------
\* target- and pattern-specific variables: prepareScopes and getScope
\* ------------------------------------------------------------------------
\* An entry of make.scopes: the key is the text left of the colon (one word
\* here), value is what the scope assigns to CFLAGS.
ScopeEntry(key, value) == [key |-> key, value |-> value]

\* re.exec(target) for the expression prepareScopes builds from a key:
\* escapeRe(t).replace('%', '.*?') has no capture group, so a match has the
\* matched text and no group
scopeExec(key, target) ==
    [matched |-> Match(key, target), groups |-> <<>>]

\* m.slice(1).find(Boolean): the first group that is not empty, or undefined
firstGroup(m) ==
    IF \E k \in DOMAIN m.groups : m.groups[k] # <<>>
    THEN [defined |-> TRUE,
          stem |-> m.groups[CHOOSE k \in DOMAIN m.groups :
                               m.groups[k] # <<>> /\ \A j \in 1..(k - 1) : m.groups[j] = <<>>]]
    ELSE [defined |-> FALSE, stem |-> <<>>]

\* exactScopes: file name -> index of its scope in scopes, 0 = none;
\* patternScopes: indices of the scopes with a pattern key, in order;
\* got: the outcome of the last getScope(asked) call
NoScopes == [scopes |-> <<>>, exactScopes |-> [n \in FileNames |-> 0], patternScopes |-> <<>>,
             asked |-> "", got |-> [kind |-> "none", scope |-> 0]]

\* prepareScopes, for one more entry of make.scopes
prepareScopes(g, e) ==
    LET id == Len(g.scopes) + 1 IN
    [g EXCEPT !.scopes = Append(@, e),
              !.exactScopes = IF IsWild(e.key) THEN @
                              ELSE [@ EXCEPT ![e.key] = id],
              !.patternScopes = IF IsWild(e.key) THEN Append(@, id) ELSE @]

\* the loop of getScope over patternScopes from position k on; reading
\* stem.length of an undefined stem throws a TypeError
RECURSIVE bestScope(_, _, _, _, _)
bestScope(g, target, k, bestvalue, beststem) ==
    IF k > Len(g.patternScopes)
    THEN [kind |-> IF bestvalue = 0 THEN "undefined" ELSE "scope", scope |-> bestvalue]
    ELSE LET i == g.patternScopes[k]
             m == scopeExec(g.scopes[i].key, target)
             f == firstGroup(m)
         IN IF ~m.matched THEN bestScope(g, target, k + 1, bestvalue, beststem)
            ELSE IF ~f.defined THEN [kind |-> "TypeError", scope |-> 0]
            ELSE IF Len(f.stem) < Len(beststem)
            THEN bestScope(g, target, k + 1, i, f.stem)
            ELSE bestScope(g, target, k + 1, bestvalue, beststem)

\* getScope(target)
getScope(g, target) ==
    IF g.exactScopes[target] # 0
    THEN [kind |-> "scope", scope |-> g.exactScopes[target]]
    ELSE bestScope(g, target, 1, 0, Spell(target))

\* run(): prepareScopes for the next entry of make.scopes
AddScope(e) ==
    /\ gs.asked = ""
    /\ Len(gs.scopes) < MaxScopes
    /\ \A k \in DOMAIN gs.scopes : gs.scopes[k].key # e.key
    /\ gs' = prepareScopes(gs, e)
    /\ UNCHANGED <<vm, sc, cp, inc, rt, ex, core, pass, shell, make, tree0, goals, opt, requested, visited, tasks,
                   running, waiting, mtime, statCache, runStatus, holders>>

\* buildTarget(target): parentScope.with(getScope(target))
AskScope(target) ==
    /\ gs.asked = ""
    /\ gs.scopes # <<>>
    /\ gs' = [gs EXCEPT !.asked = target, !.got = getScope(gs, target)]
    /\ UNCHANGED <<vm, sc, cp, inc, rt, ex, core, pass, shell, make, tree0, goals, opt, requested, visited, tasks,
                   running, waiting, mtime, statCache, runStatus, holders>>

\* ------------------------------------------------------------------------
\* include directives and the deferred includes of run()
\* ------------------------------------------------------------------------
IncludeFiles == <<"a.mk", "b.mk", "c.mk">>

\* a directive line: command is include, -include or sinclude
Directive(command, file) == [command |-> command, file |-> file]

\* disk: the include files that can be found; rule: how the makefile can make
\* a file ("none": no rule, "ok": a recipe that writes it, "fails": a recipe
\* that exits non-zero); built: results of the buildTarget calls so far
NoIncludes == [lines |-> <<>>, disk |-> {}, rule |-> [f \in Range(IncludeFiles) |-> "none"],
               pc |-> "done", pos |-> 1, loaded |-> <<>>, deferredIncludes |-> <<>>,
               built |-> <<>>, error |-> FALSE]

NewIncludes(lines, disk, rule) ==
    [NoIncludes EXCEPT !.lines = lines, !.disk = disk, !.rule = rule, !.pc = "parse"]

\* the include case of parse for the next directive line: includeFiles
\* returns the files the loader did not find, and all of them are pushed
\* onto deferredIncludes with the flag noError
ParseInclude ==
    /\ inc.pc = "parse"
    /\ LET d       == inc.lines[inc.pos]
           noError == d.command \in {"sinclude", "-include"}
           failed  == IF d.file \in inc.disk THEN <<>> ELSE <<d.file>>
       IN inc' = [inc EXCEPT
                    !.loaded = IF d.file \in inc.disk THEN Append(@, d.file) ELSE @,
                    !.deferredIncludes = @ \o [k \in DOMAIN failed |-> [file |-> failed[k], noError |-> noError]],
                    !.pos = @ + 1,
                    !.pc = IF inc.pos = Len(inc.lines) THEN "run" ELSE "parse"]
    /\ UNCHANGED <<vm, gs, sc, cp, rt, ex, core, pass, shell, make, tree0, goals, opt, requested, visited, tasks,
                   running, waiting, mtime, statCache, runStatus, holders>>

\* run(): buildTarget(inc.file) for the next deferred include.  A file
\* without a rule gets the recipe [] from getRule and its build resolves to
\* true; a recipe that succeeds writes the file; a recipe that fails rejects
\* the build and, keepGoing being unset, run() with it
BuildDeferred ==
    /\ inc.pc = "run"
    /\ Len(inc.built) < Len(inc.deferredIncludes)
    /\ LET file == inc.deferredIncludes[Len(inc.built) + 1].file IN
       IF inc.rule[file] = "fails"
       THEN inc' = [inc EXCEPT !.pc = "rejected", !.error = TRUE]
       ELSE inc' = [inc EXCEPT !.built = Append(@, TRUE),
                               !.disk = IF inc.rule[file] = "ok" THEN @ \cup {file} ELSE @]
    /\ UNCHANGED <<vm, gs, sc, cp, rt, ex, core, pass, shell, make, tree0, goals, opt, requested, visited, tasks,
                   running, waiting, mtime, statCache, runStatus, holders>>

\* run(): when a deferred include was built the files are included again;
\* the list of failed files that include returns is dropped
Reinclude ==
    /\ inc.pc = "run"
    /\ Len(inc.built) = Len(inc.deferredIncludes)
    /\ inc' = [inc EXCEPT
                 !.loaded = IF \E k \in DOMAIN inc.built : inc.built[k]
                            THEN @ \o SelectSeq([k \in DOMAIN inc.deferredIncludes |-> inc.deferredIncludes[k].file],
                                                LAMBDA f : f \in inc.disk)
                            ELSE @,
                 !.pc = "goals"]
    /\ UNCHANGED <<vm, gs, sc, cp, rt, ex, core, pass, shell, make, tree0, goals, opt, requested, visited, tasks,
                   running, waiting, mtime, statCache, runStatus, holders>>

\* run(): the goals are built and run() resolves
IncludeSettle ==
    /\ inc.pc = "goals"
    /\ inc' = [inc EXCEPT !.pc = "done"]
    /\ UNCHANGED <<vm, gs, sc, cp, rt, ex, core, pass, shell, make, tree0, goals, opt, requested, visited, tasks,
                   running, waiting, mtime, statCache, runStatus, holders>>

\* ------------------------------------------------------------------------
\* parse: the conditional directives
\* ------------------------------------------------------------------------
\* The lines of a text: "if1" is an ifeq/ifneq/ifdef/ifndef line whose
\* condition holds, "if0" one whose condition fails, "elif1"/"elif0" are
\* `else if...` lines, "rif" and "relse" are recipe lines (a tab, then shell
\* text that begins with `if` or with `else`), "x" is any other line.
SourceLines == {"if1", "if0", "else", "elif1", "elif0", "endif", "rif", "relse", "x"}

\* lines[i].startsWith('if'), lines[i].startsWith('else'): the line as written
StartsWithIf(line)   == line \in {"if1", "if0"}
StartsWithElse(line) == line \in {"else", "elif1", "elif0"}

\* lines[i].trim().startsWith('if'), .startsWith('else'): the tab of a recipe
\* line is trimmed away
TrimmedStartsWithIf(line)   == StartsWithIf(line) \/ line = "rif"
TrimmedStartsWithElse(line) == StartsWithElse(line) \/ line = "relse"

\* skipToEndif(i, allowElse), entered with depth = 1: the index of the line
\* it stops at, or 0 when it reads past the last line (lines[++i] is then
\* undefined and .trim() throws)
RECURSIVE skipToEndif(_, _, _, _)
skipToEndif(lines, i, allowElse, depth) ==
    IF i + 1 > Len(lines) THEN 0
    ELSE LET line == lines[i + 1] IN
         IF line = "endif"
         THEN IF depth = 1 THEN i + 1 ELSE skipToEndif(lines, i + 1, allowElse, depth - 1)
         ELSE IF TrimmedStartsWithIf(line)
         THEN skipToEndif(lines, i + 1, allowElse, depth + 1)
         ELSE IF allowElse /\ TrimmedStartsWithElse(line) /\ depth = 1
         THEN i + 1
         ELSE skipToEndif(lines, i + 1, allowElse, depth)

\* the for loop of a conditional whose condition fails, entered at line i
\* after ifdepth++: [i, ifdepth change, crash]
RECURSIVE falseBranch(_, _)
falseBranch(lines, i) ==
    LET j == skipToEndif(lines, i, TRUE, 1) IN
    IF j = 0 THEN [i |-> i, delta |-> 1, crash |-> TRUE]
    ELSE IF ~StartsWithElse(lines[j]) THEN [i |-> j, delta |-> 0, crash |-> FALSE]
    ELSE IF lines[j] = "elif0" THEN falseBranch(lines, j)
    ELSE [i |-> j, delta |-> 1, crash |-> FALSE]

\* seen: the lines handled as recipe lines, assignments or rule headers
NoParse == [lines |-> <<>>, i |-> 1, ifdepth |-> 0, pc |-> "done", error |-> "", lineNo |-> 0,
            seen |-> {}]

NewParse(lines) == [NoParse EXCEPT !.lines = lines, !.pc = "parse"]

\* what the catch of the loop body throws: the message with `at line lineNo`
Throw(message) == [cp EXCEPT !.pc = "error", !.error = message, !.lineNo = cp.i]

\* one iteration of the for loop of parse over the line cp.i
ParseLine ==
    /\ cp.pc = "parse"
    /\ LET line == cp.lines[cp.i]
           next(i, depth) == [cp EXCEPT !.i = i + 1, !.ifdepth = depth,
                                        !.pc = IF i + 1 > Len(cp.lines) THEN "done" ELSE "parse"]
       IN cp' =
            CASE line = "if1" -> next(cp.i, cp.ifdepth + 1)
              [] line = "if0" ->
                    LET r == falseBranch(cp.lines, cp.i) IN
                    IF r.crash THEN Throw("TypeError") ELSE next(r.i, cp.ifdepth + r.delta)
              [] StartsWithElse(line) ->
                    IF cp.ifdepth = 0 THEN Throw("Unexpected else")
                    ELSE LET j == skipToEndif(cp.lines, cp.i, FALSE, 1) IN
                         IF j = 0 THEN Throw("TypeError") ELSE next(j, cp.ifdepth)
              [] line = "endif" ->
                    IF cp.ifdepth = 0 THEN Throw("Unexpected endif")
                    ELSE next(cp.i, cp.ifdepth - 1)
              [] OTHER -> [next(cp.i, cp.ifdepth) EXCEPT !.seen = @ \cup {cp.i}]
    /\ UNCHANGED <<vm, gs, sc, inc, rt, ex, core, pass, shell, make, tree0, goals, opt, requested, visited, tasks,
                   running, waiting, mtime, statCache, runStatus, holders>>

\* ------------------------------------------------------------------------
\* statCache with assumeNew / assumeOld
\* ------------------------------------------------------------------------
\* Two files in the working directory; a path names one either relative to it
\* or absolutely.  path.resolve(cwd, p) of both is the absolute one.
StatFiles == {"A", "B"}
Relative(f) == f
Absolute(f) == IF f = "A" THEN "/cwd/A" ELSE "/cwd/B"
Paths == {Relative(f) : f \in StatFiles} \cup {Absolute(f) : f \in StatFiles}
resolve(p) == IF p \in {"A", "/cwd/A"} THEN "/cwd/A" ELSE "/cwd/B"

\* Infinity, later than every stamp of the file system
Infinity == 99

\* cache[key] = -1: no entry.  queued: the callbacks
\* `f => statCache.set(f, ...)` of clearCaches whose getPath promise has not
\* been followed yet.  read: the file and stamp of the last modTime call.
NoStats == [assumeNew |-> {}, assumeOld |-> {}, stamp |-> [f \in StatFiles |-> 0],
            cache |-> [p \in Paths |-> -1], queued |-> {}, recipes |-> 0,
            read |-> [file |-> "", stamp |-> -1]]

\* run() starts with an empty statCache: clearCaches is called nowhere but
\* after a recipe
NewStats(new, old, stamp) == [NoStats EXCEPT !.assumeNew = new, !.assumeOld = old, !.stamp = stamp]

\* buildRule reads the stamp of a target or prerequisite for the rebuild
\* decision: modTime(file), keyed by path.resolve(cwd, file)
StatModTime(f) ==
    /\ LET abs   == resolve(Relative(f))
           value == IF sc.cache[abs] >= 0 THEN sc.cache[abs] ELSE sc.stamp[f]
       IN sc' = [sc EXCEPT !.cache[abs] = value, !.read = [file |-> f, stamp |-> value]]
    /\ UNCHANGED <<vm, gs, cp, inc, rt, ex, core, pass, shell, make, tree0, goals, opt, requested, visited, tasks,
                   running, waiting, mtime, statCache, runStatus, holders>>

\* a recipe has run: clearCaches() empties the caches and starts getPath for
\* every assumed path; getPath gives a path back as it stands (no vpath), and
\* the callbacks that set the cache wait for its promise
StatClearCaches ==
    /\ sc.recipes < MaxTime
    /\ sc' = [sc EXCEPT
                !.cache = [p \in Paths |-> -1],
                !.queued = @ \cup {[key |-> p, value |-> Infinity] : p \in sc.assumeNew}
                             \cup {[key |-> p, value |-> 1] : p \in sc.assumeOld},
                !.recipes = @ + 1,
                !.read = [file |-> "", stamp |-> -1]]
    /\ UNCHANGED <<vm, gs, cp, inc, rt, ex, core, pass, shell, make, tree0, goals, opt, requested, visited, tasks,
                   running, waiting, mtime, statCache, runStatus, holders>>

\* a queued callback runs: statCache.set(f, Promise.resolve(value)) under the
\* key getPath returned
StatSet(c) ==
    /\ c \in sc.queued
    /\ sc' = [sc EXCEPT !.cache[c.key] = c.value, !.queued = @ \ {c},
                        !.read = [file |-> "", stamp |-> -1]]
    /\ UNCHANGED <<vm, gs, cp, inc, rt, ex, core, pass, shell, make, tree0, goals, opt, requested, visited, tasks,
                   running, waiting, mtime, statCache, runStatus, holders>>

\* ------------------------------------------------------------------------
\* Semaphore
\* ------------------------------------------------------------------------
\* A semaphore value is [running, waiting]; max is opt.jobs.

\* acquire(): grant at once when running < max, else queue the caller
semAcquire(sem, max, who) ==
    IF sem.running < max
    THEN [running |-> sem.running + 1, waiting |-> sem.waiting, granted |-> TRUE]
    ELSE [running |-> sem.running, waiting |-> Append(sem.waiting, who), granted |-> FALSE]

\* release(): running--, then hand the slot to the head of the queue;
\* grant is the id that received it, 0 if none
semRelease(sem, max) ==
    LET r == sem.running - 1 IN
    IF r < max /\ Len(sem.waiting) > 0
    THEN [running |-> r + 1, waiting |-> Tail(sem.waiting), grant |-> Head(sem.waiting)]
    ELSE [running |-> r, waiting |-> sem.waiting, grant |-> 0]

\* purge(): reject every waiter, running = 0
semPurge(sem) == [running |-> 0, waiting |-> <<>>]

\* ------------------------------------------------------------------------
\* Timestamps: modTime / clearCaches
\* ------------------------------------------------------------------------
\* modTime(file): the cached stamp if there is one, else the file system's
modTime(cache, file) == IF cache[file] >= 0 THEN cache[file] ELSE mtime[file]

\* statCache after modTime has been called for every file of the set
cacheFill(cache, files) ==
    [f \in Files |-> IF f \in files /\ cache[f] < 0 THEN mtime[f] ELSE cache[f]]

\* clearCaches() with empty assumeNew / assumeOld
clearCaches == [f \in Files |-> -1]

MaxOf(S) == CHOOSE m \in S : \A x \in S : m >= x

\* the stamp a write made now gives a file: later than every stamp so far
Now == MaxOf({mtime[f] : f \in Files}) + 1

\* ------------------------------------------------------------------------
\* buildTarget
\* ------------------------------------------------------------------------
NoView == [f \in Files |-> -1]

\* no recipe environment yet
NoAuto == [first |-> "", caret |-> <<>>, plus |-> <<>>, pipe |-> <<>>, query |-> <<>>]

NewTask(target, r) ==
    [target |-> target, rule |-> r, pc |-> "prereqs", pos |-> 1, last |-> FALSE,
     batch |-> {}, res |-> "pending", seenT |-> -1, view |-> NoView,
     decided |-> FALSE, started |-> FALSE, failed |-> FALSE,
     acq |-> 0, rel |-> 0, unlinked |-> FALSE, auto |-> NoAuto]

\* mutant of mapSet: the entry is not installed
mapSetLost(map, k, v) == map

\* mapSet(map, k, v)
mapSet(map, k, v) == [map EXCEPT ![k] = v]

\* for (const t of r.targets) visited.set(t, p)
setAll(map, ks, v) == [k \in DOMAIN map |-> IF k \in Range(ks) THEN v ELSE map[k]]

\* the callback buildTarget maps over a double-colon list; acc collects the
\* promises Promise.all waits for
RECURSIVE buildArray(_, _, _, _)
buildArray(st, target, rs, acc) ==
    IF rs = <<>> THEN [st EXCEPT !.p = acc]
    ELSE
      LET r  == Head(rs)
          id == Len(st.tasks) + 1
      IN IF r.targets # <<>>
         THEN IF st.visited[r.targets[1]] # {}
              THEN buildArray(st, target, Tail(rs), acc \cup st.visited[r.targets[1]])
              ELSE buildArray([visited |-> setAll(st.visited, r.targets, {id}),
                               tasks   |-> Append(st.tasks, NewTask(r.targets[1], r)),
                               p       |-> {}],
                              target, Tail(rs), acc \cup {id})
         ELSE buildArray([st EXCEPT !.tasks = Append(st.tasks, NewTask(target, r))],
                         target, Tail(rs), acc \cup {id})

\* st = [visited, tasks, p]; the result carries the promise returned in p.
\* buildRule runs up to its first await (path resolution) inside the call, so
\* the visited entry is installed before any other code runs.
buildTarget(st, target) ==
    IF st.visited[target] # {}
    THEN [st EXCEPT !.p = st.visited[target]]
    ELSE
      LET rules == getRule(target)
          id    == Len(st.tasks) + 1
      IN IF rules.array
         THEN LET st1 == buildArray(st, target, rules.rules, {})
              IN  [st1 EXCEPT !.visited = mapSet(st1.visited, target, st1.p)]
         ELSE LET r == rules.rules[1] IN
              IF r.targets # <<>>
              THEN IF st.visited[r.targets[1]] # {}
                   THEN [st EXCEPT !.p = st.visited[r.targets[1]]]
                   ELSE [visited |-> setAll(st.visited, r.targets, {id}),
                         tasks   |-> Append(st.tasks, NewTask(r.targets[1], r)),
                         p       |-> {id}]
              ELSE [visited |-> mapSet(st.visited, target, {id}),
                    tasks   |-> Append(st.tasks, NewTask(target, r)),
                    p       |-> {id}]

\* mapAsync(list, pre => buildTarget(pre, scopeNoPriv)): the calls are made in
\* list order before anything is awaited
RECURSIVE buildAll(_, _, _)
buildAll(st, list, acc) ==
    IF list = <<>> THEN [st EXCEPT !.p = acc]
    ELSE CHOOSE r \in {buildAll(st1, Tail(list), acc \cup st1.p) :
                        st1 \in {buildTarget(st, Head(list))}} : TRUE

\* Promise.all over the tasks of a promise
Rejected(ts, p) == \E j \in p : ts[j].res = "rejected"

\* mutant of Resolved: one resolved promise of the list is enough
ResolvedAny(ts, p) == p = {} \/ \E j \in p : ts[j].res \in {"true", "false"}

\* Promise.all(list) has resolved: every promise of the list has
Resolved(ts, p) == \A j \in p : ts[j].res \in {"true", "false"}
Value(ts, p)    == \E j \in p : ts[j].res = "true"

\* ------------------------------------------------------------------------
\* buildRule: scheduling of the prerequisites
\* ------------------------------------------------------------------------
targetsOf(t)    == IF t.rule.targets # <<>> THEN t.rule.targets ELSE <<t.target>>
uniquePrereqs(t) == unique(t.rule.prerequisites)
extraPrereqs(t) == IF t.target \in Targets THEN make.extra[t.target] ELSE <<>>

\* the for-of loop of the .NOTPARALLEL branch skips .WAIT
RECURSIVE NextNonWait(_, _)
NextNonWait(s, from) ==
    IF from > Len(s) THEN 0
    ELSE IF s[from] # WAIT THEN from
    ELSE NextNonWait(s, from + 1)

\* the next non-empty segment of a list split by .WAIT, from position pos on;
\* tail is what the last segment is extended with (awaiting an empty list
\* settles at once)
RECURSIVE nextSegment(_, _, _)
nextSegment(pre, pos, tail) ==
    LET w == IndexFrom(pre, WAIT, pos) IN
    IF w > 0
    THEN IF w > pos
         THEN [none |-> FALSE, list |-> Slice(pre, pos, w - 1), pos |-> w + 1, last |-> FALSE]
         ELSE nextSegment(pre, w + 1, tail)
    ELSE LET l == unique(Slice(pre, pos, Len(pre)) \o tail) IN
         [none |-> l = <<>>, list |-> l, pos |-> Len(pre) + 1, last |-> TRUE]

\* mutant of hasWait: the .WAIT branch is never taken
hasWaitNever(pre) == FALSE

\* prerequisites.indexOf('.WAIT') >= 0
hasWait(pre) == IndexFrom(pre, WAIT, 1) > 0

\* mutant of nextBatch: .NOTPARALLEL is not looked at
nextBatchNoSerial(t) ==
    LET pre == t.rule.prerequisites
        uni == uniquePrereqs(t)
    IN IF hasWait(pre)
       THEN nextSegment(pre, t.pos, extraPrereqs(t) \o t.rule.orderOnly)
       ELSE LET l == unique(uni \o extraPrereqs(t) \o t.rule.orderOnly) IN
            [none |-> l = <<>>, list |-> l, pos |-> Len(pre) + 1, last |-> TRUE]

\* The next list of prerequisites buildRule hands to buildTarget:
\* none = nothing is left to build; last = nothing follows this list.
nextBatch(t) ==
    LET pre == t.rule.prerequisites
        uni == uniquePrereqs(t)
    IN IF specialHas(".NOTPARALLEL", t.target)
       THEN LET k == NextNonWait(uni, t.pos) IN
            IF k = 0
            THEN [none |-> TRUE,  list |-> <<>>, pos |-> t.pos, last |-> TRUE]
            ELSE [none |-> FALSE, list |-> <<uni[k]>>, pos |-> k + 1, last |-> FALSE]
       ELSE IF hasWait(pre)
       THEN nextSegment(pre, t.pos, extraPrereqs(t) \o t.rule.orderOnly)
       ELSE LET l == unique(uni \o extraPrereqs(t) \o t.rule.orderOnly) IN
            [none |-> l = <<>>, list |-> l, pos |-> Len(pre) + 1, last |-> TRUE]

\* Math.min(...targetTimes): modTime of every target, a phony one counts as 0
targetTime(cache, t) ==
    MinOf({IF specialHas(".PHONY", f) THEN 0 ELSE modTime(cache, f) : f \in Range(targetsOf(t))})

\* the targets modTime is called for
statted(t) == {f \in Range(targetsOf(t)) : ~specialHas(".PHONY", f)}

\* after the prerequisites: `if (r.recipe)` leads to the timestamp check (the
\* calls of modTime for the targets are made here, and their promises enter
\* the cache), otherwise buildRule returns false
afterPrereqs(t) ==
    IF t.rule.recipe # "none"
    THEN [t EXCEPT !.pc = "stat", !.batch = {}, !.seenT = targetTime(statCache, t)]
    ELSE [t EXCEPT !.pc = "done", !.res = "false", !.batch = {}]

\* the stat cache after afterPrereqs
cacheAfterPrereqs(t) ==
    IF t.rule.recipe # "none" THEN cacheFill(statCache, statted(t)) ELSE statCache

\* buildRule resumes after path resolution or after the awaited list of
\* prerequisite builds has settled (Promise.all rejects on the first
\* rejection), and runs to the next await.
BuildRulePrereqs(i) ==
    LET t == tasks[i] IN
    /\ t.pc = "prereqs"
    /\ Rejected(tasks, t.batch) \/ Resolved(tasks, t.batch)
    /\ IF Rejected(tasks, t.batch)
       THEN /\ tasks' = [tasks EXCEPT ![i].pc = "done", ![i].res = "rejected"]
            /\ UNCHANGED <<visited, statCache>>
       ELSE IF Value(tasks, t.batch) /\ opt.mode = "question"
       THEN /\ tasks' = [tasks EXCEPT ![i].pc = "done", ![i].res = "true"]
            /\ UNCHANGED <<visited, statCache>>
       ELSE LET nb == nextBatch(t) IN
            IF t.last \/ nb.none
            THEN /\ tasks' = [tasks EXCEPT ![i] = afterPrereqs(t)]
                 /\ statCache' = cacheAfterPrereqs(t)
                 /\ UNCHANGED visited
            ELSE \E st \in {buildAll([visited |-> visited, tasks |-> tasks, p |-> {}], nb.list, {})} :
                    /\ Len(st.tasks) <= MaxTasks
                    /\ visited' = st.visited
                    /\ tasks' = [st.tasks EXCEPT ![i].batch = st.p, ![i].pos = nb.pos,
                                                 ![i].last = nb.last]
                    /\ UNCHANGED statCache
    /\ UNCHANGED <<vm, gs, sc, cp, inc, rt, ex, core, pass, shell, make, tree0, goals, opt, requested, running, waiting, mtime,
                   runStatus, holders>>

\* ------------------------------------------------------------------------
\* buildRule: rebuild decision and recipe
\* ------------------------------------------------------------------------
\* mutant of compared: the order-only prerequisites are compared too
comparedWithOrderOnly(t) == unique(uniquePrereqs(t) \o extraPrereqs(t) \o t.rule.orderOnly)

\* the files whose stamps are compared with the target's
compared(t) == unique(uniquePrereqs(t) \o extraPrereqs(t))

\* .some(t => t > mtime)
outOfDate(m, stamps) == \E x \in stamps : x > m

\* special.DELETE_ON_ERROR.has(target) && !PRECIOUS.has(target) && !SECONDARY.has(target)
deleteOnError(target) ==
    /\ specialHas(".DELETE_ON_ERROR", target)
    /\ ~specialHas(".PRECIOUS", target)
    /\ ~specialHas(".SECONDARY", target)

\* the catch block unlinks only under `if (!opt.keepGoing)`
unlinkOnFailure(target) == ~opt.keepGoing /\ deleteOnError(target)

\* the files a recipe that runs to some point writes: its targets, unless phony
written(t) == {f \in Range(targetsOf(t)) : ~specialHas(".PHONY", f)}

\* mutant of releaseLock: the slot is freed, and the build the semaphore
\* grants it to is never resumed
releaseLockNoResume(ts, i) ==
    LET r == semRelease([running |-> running, waiting |-> waiting], opt.jobs)
    IN [tasks   |-> [ts EXCEPT ![i].rel = @ + 1],
        running |-> r.running,
        waiting |-> r.waiting]

\* lock.release() of task i, over the task list ts: the slot goes to the head
\* of the queue, whose buildRule then calls runRecipe
releaseLock(ts, i) ==
    LET r   == semRelease([running |-> running, waiting |-> waiting], opt.jobs)
        ts1 == [ts EXCEPT ![i].rel = @ + 1]
    IN [tasks   |-> IF r.grant # 0
                    THEN [ts1 EXCEPT ![r.grant].pc = "run", ![r.grant].started = TRUE,
                                     ![r.grant].acq = @ + 1]
                    ELSE ts1,
        running |-> r.running,
        waiting |-> r.waiting]

\* mutant of releaseAfterFailure: the lock is released on success only
releaseAfterFailureLeak(ts, i) == [tasks |-> ts, running |-> running, waiting |-> waiting]

\* the finally block on the paths that leave the try by an error
releaseAfterFailure(ts, i) == releaseLock(ts, i)

\* oldest: the stamp of the target as read (targets has one element, since
\* getRule copies no targets field), 0 when it is missing or phony;
\* older: the prerequisites whose stamp exceeds it, or all of them
older(t, view) ==
    IF t.seenT # 0
    THEN SelectSeq(uniquePrereqs(t), LAMBDA p : view[p] > t.seenT)
    ELSE uniquePrereqs(t)

\* mutant of automatic: $^ is taken from the list compared with the target
automaticWithExtra(t, view) ==
    [first |-> IF uniquePrereqs(t) = <<>> THEN "" ELSE uniquePrereqs(t)[1],
     caret |-> compared(t),
     plus  |-> t.rule.prerequisites,
     pipe  |-> t.rule.orderOnly,
     query |-> older(t, view)]

\* the automatic variables $<, $^, $+, $| and $? of the recipe's environment
automatic(t, view) ==
    [first |-> IF uniquePrereqs(t) = <<>> THEN "" ELSE uniquePrereqs(t)[1],
     caret |-> uniquePrereqs(t),
     plus  |-> t.rule.prerequisites,
     pipe  |-> t.rule.orderOnly,
     query |-> older(t, view)]

\* The recipe is needed: dispatch on the mode.  t1 is task i as updated so far.
StartRecipe(i, t1) ==
    IF opt.mode \in {"normal", "dry-run"}
    THEN LET a  == semAcquire([running |-> running, waiting |-> waiting], opt.jobs, i)
             t2 == [t1 EXCEPT !.auto = automatic(t1, t1.view)]
         IN
         /\ running' = a.running
         /\ waiting' = a.waiting
         /\ tasks' = [tasks EXCEPT ![i] =
                        IF a.granted
                        THEN [t2 EXCEPT !.pc = "run", !.started = TRUE, !.acq = @ + 1]
                        ELSE [t2 EXCEPT !.pc = "waiting"]]
         /\ UNCHANGED mtime
    ELSE /\ tasks' = [tasks EXCEPT ![i] = [t1 EXCEPT !.pc = "done", !.res = "true"]]
         /\ mtime' = IF opt.mode = "touch"
                     THEN [f \in Files |-> IF f \in Range(targetsOf(t1)) THEN Now ELSE mtime[f]]
                     ELSE mtime
         /\ UNCHANGED <<running, waiting>>

\* what modTime answers, given the cache, for the files of rule t: its
\* targets and its prerequisites of every kind
ViewOf(cache, t) ==
    LET fs == Range(targetsOf(t)) \cup Range(t.rule.prerequisites)
                \cup Range(extraPrereqs(t)) \cup Range(t.rule.orderOnly)
    IN [f \in Files |-> IF f \in fs THEN modTime(cache, f) ELSE -1]

\* the timestamps of the targets have arrived; a missing or phony target
\* needs its recipe without a look at the prerequisites, otherwise modTime is
\* called for the prerequisites (all normal ones when always is set)
StatTarget(i) ==
    LET t      == tasks[i]
        cmp    == Range(compared(t))
        cache1 == IF t.seenT = 0 THEN statCache
                  ELSE cacheFill(statCache, IF opt.always THEN Range(uniquePrereqs(t)) ELSE cmp)
        t1     == [t EXCEPT !.view = [ViewOf(cache1, t) EXCEPT ![t.target] = t.seenT]]
    IN /\ t.pc = "stat"
       /\ statCache' = cache1
       /\ IF t.seenT = 0
          THEN StartRecipe(i, [t1 EXCEPT !.decided = TRUE])
          ELSE /\ tasks' = [tasks EXCEPT ![i] = [t1 EXCEPT !.pc = "decide"]]
               /\ UNCHANGED <<running, waiting, mtime>>
       /\ UNCHANGED <<vm, gs, sc, cp, inc, rt, ex, core, pass, shell, make, tree0, goals, opt, requested, visited, runStatus, holders>>

\* the timestamps of the prerequisites have arrived:
\* opt.always || (stamps of the prerequisites).some(t => t > mtime)
Decide(i) ==
    LET t    == tasks[i]
        need == opt.always \/ outOfDate(t.seenT, {t.view[f] : f \in Range(compared(t))})
        t1   == [t EXCEPT !.decided = TRUE]
    IN /\ t.pc = "decide"
       /\ IF need
          THEN StartRecipe(i, t1)
          ELSE /\ tasks' = [tasks EXCEPT ![i] = [t1 EXCEPT !.pc = "done", !.res = "false"]]
               /\ UNCHANGED <<running, waiting, mtime>>
       /\ UNCHANGED <<vm, gs, sc, cp, inc, rt, ex, core, pass, shell, make, tree0, goals, opt, requested, visited, statCache, runStatus, holders>>

\* runRecipe resolves: clearCaches(), finally release, return true
RecipeSucceed(i) ==
    LET t  == tasks[i]
        rl == releaseLock([tasks EXCEPT ![i].pc = "done", ![i].res = "true"], i)
    IN /\ t.pc = "run"
       /\ tasks' = rl.tasks
       /\ running' = rl.running
       /\ waiting' = rl.waiting
       /\ mtime' = IF opt.mode = "normal" /\ t.rule.recipe = "cmds"
                   THEN [f \in Files |-> IF f \in written(t) THEN Now ELSE mtime[f]]
                   ELSE mtime
       /\ statCache' = clearCaches
       /\ UNCHANGED <<vm, gs, sc, cp, inc, rt, ex, core, pass, shell, make, tree0, goals, opt, requested, visited, runStatus, holders>>

\* runRecipe rejects (non-zero exit, ignore unset); the recipe may have
\* written a partial target before it failed
RecipeFail(i) ==
    LET t == tasks[i] IN
    /\ t.pc = "run"
    /\ opt.mode = "normal"
    /\ t.rule.recipe = "cmds"
    /\ \E partial \in BOOLEAN :
         mtime' = IF partial
                  THEN [f \in Files |-> IF f \in written(t) THEN Now ELSE mtime[f]]
                  ELSE mtime
    /\ IF opt.keepGoing
       THEN LET rl == releaseAfterFailure([tasks EXCEPT ![i].pc = "done", ![i].res = "true",
                                                        ![i].failed = TRUE], i)
            IN tasks' = rl.tasks /\ running' = rl.running /\ waiting' = rl.waiting
       ELSE IF unlinkOnFailure(t.target)
       THEN /\ tasks' = [tasks EXCEPT ![i].pc = "unlink", ![i].failed = TRUE]
            /\ UNCHANGED <<running, waiting>>
       ELSE LET rl == releaseAfterFailure([tasks EXCEPT ![i].pc = "done", ![i].res = "rejected",
                                                        ![i].failed = TRUE], i)
            IN tasks' = rl.tasks /\ running' = rl.running /\ waiting' = rl.waiting
    /\ UNCHANGED <<vm, gs, sc, cp, inc, rt, ex, core, pass, shell, make, tree0, goals, opt, requested, visited, statCache, runStatus, holders>>

\* Promise.allSettled(unlink) has settled: throw err, finally release
UnlinkDone(i) ==
    LET t  == tasks[i]
        rl == releaseAfterFailure([tasks EXCEPT ![i].pc = "done", ![i].res = "rejected",
                                                ![i].unlinked = TRUE], i)
    IN /\ t.pc = "unlink"
       /\ tasks' = rl.tasks
       /\ running' = rl.running
       /\ waiting' = rl.waiting
       /\ mtime' = [f \in Files |-> IF f \in Range(targetsOf(t)) THEN 0 ELSE mtime[f]]
       /\ UNCHANGED <<vm, gs, sc, cp, inc, rt, ex, core, pass, shell, make, tree0, goals, opt, requested, visited, statCache, runStatus, holders>>

\* ------------------------------------------------------------------------
\* run: goals and result
\* ------------------------------------------------------------------------
\* getPath(g).then(g => buildTarget(g, make)) for one goal; the calls for the
\* goals are made in the order in which their path look-ups resolve
RequestGoal(k) ==
    LET st == buildTarget([visited |-> visited, tasks |-> tasks, p |-> {}], goals[k]) IN
    /\ k \in DOMAIN goals
    /\ ~requested[k].done
    /\ Len(st.tasks) <= MaxTasks
    /\ visited' = st.visited
    /\ tasks' = st.tasks
    /\ requested' = [requested EXCEPT ![k] = [done |-> TRUE, p |-> st.p]]
    /\ UNCHANGED <<vm, gs, sc, cp, inc, rt, ex, core, pass, shell, make, tree0, goals, opt, running, waiting, mtime, statCache, runStatus, holders>>

\* (await mapAsync(goals, ...)).some(Boolean)
RunSettle ==
    /\ runStatus = "pending"
    /\ IF \E k \in DOMAIN goals : requested[k].done /\ Rejected(tasks, requested[k].p)
       THEN runStatus' = "rejected"
       ELSE /\ \A k \in DOMAIN goals : requested[k].done /\ Resolved(tasks, requested[k].p)
            /\ runStatus' = IF \E k \in DOMAIN goals : Value(tasks, requested[k].p)
                            THEN "true" ELSE "false"
    /\ UNCHANGED <<vm, gs, sc, cp, inc, rt, ex, core, pass, shell, make, tree0, goals, opt, requested, visited, tasks, running, waiting,
                   mtime, statCache, holders>>

\* run() is called again with the same makefile, goals and options, after the
\* first call has returned and every recipe it ran has succeeded: visited, the
\* Semaphore and statCache are created anew, the file system is kept
Rerun ==
    /\ pass = 1
    /\ runStatus \in {"true", "false"}
    /\ opt.mode = "normal"
    /\ ~opt.always
    /\ \A i \in DOMAIN tasks : tasks[i].pc = "done" /\ ~tasks[i].failed
    /\ pass' = 2
    /\ requested' = [k \in DOMAIN goals |-> [done |-> FALSE, p |-> {}]]
    /\ visited' = [n \in Files |-> {}]
    /\ tasks' = <<>>
    /\ running' = 0
    /\ waiting' = <<>>
    /\ statCache' = clearCaches
    /\ runStatus' = "pending"
    /\ UNCHANGED <<vm, gs, sc, cp, inc, rt, ex, core, shell, make, tree0, goals, opt, mtime, holders>>

\* ------------------------------------------------------------------------
\* run() in touch mode has returned, and run() is called with the same
\* makefile and goals in question mode: visited, the Semaphore and statCache
\* are created anew, the file system is kept
Requery ==
    /\ pass = 1
    /\ runStatus \in {"true", "false"}
    /\ opt.mode = "touch"
    /\ pass' = 2
    /\ opt' = [opt EXCEPT !.mode = "question"]
    /\ requested' = [k \in DOMAIN goals |-> [done |-> FALSE, p |-> {}]]
    /\ visited' = [n \in Files |-> {}]
    /\ tasks' = <<>>
    /\ running' = 0
    /\ waiting' = <<>>
    /\ statCache' = clearCaches
    /\ runStatus' = "pending"
    /\ UNCHANGED <<vm, gs, sc, cp, inc, rt, ex, core, shell, make, tree0, goals, mtime, holders>>

\* ------------------------------------------------------------------------
\* Stand-alone Semaphore: clients call acquire, release and purge directly
\* ------------------------------------------------------------------------
Clients == 1..MaxClients

SemAcquire(c) ==
    LET a == semAcquire([running |-> running, waiting |-> waiting], opt.jobs, c) IN
    /\ holders[c] = 0
    /\ c \notin Range(waiting)
    /\ running' = a.running
    /\ waiting' = a.waiting
    /\ holders' = IF a.granted THEN [holders EXCEPT ![c] = 1] ELSE holders
    /\ UNCHANGED <<vm, gs, sc, cp, inc, rt, ex, core, pass, shell, make, tree0, goals, opt, requested, visited, tasks, mtime, statCache, runStatus>>

SemRelease(c) ==
    LET r == semRelease([running |-> running, waiting |-> waiting], opt.jobs) IN
    /\ holders[c] = 1
    /\ running' = r.running
    /\ waiting' = r.waiting
    /\ holders' = [x \in Clients |-> IF x = r.grant THEN 1 ELSE IF x = c THEN 0 ELSE holders[x]]
    /\ UNCHANGED <<vm, gs, sc, cp, inc, rt, ex, core, pass, shell, make, tree0, goals, opt, requested, visited, tasks, mtime, statCache, runStatus>>

SemPurge ==
    LET s == semPurge([running |-> running, waiting |-> waiting]) IN
    /\ running' = s.running
    /\ waiting' = s.waiting
    /\ UNCHANGED <<vm, gs, sc, cp, inc, rt, ex, core, pass, shell, make, tree0, goals, opt, requested, visited, tasks, mtime, statCache, runStatus,
                   holders>>

\* ------------------------------------------------------------------------
\* runRecipe: one call, stand-alone
\* ------------------------------------------------------------------------
\* a recipe line: its prefix characters '-' and '+', and whether its text
\* refers to $(MAKE) or ${MAKE}
Lines == [minus : BOOLEAN, plus : BOOLEAN, hasMAKE : BOOLEAN]

\* reHasMAKE.test(line)
reHasMAKE(line) == line.hasMAKE

parseRecipeLine(line) ==
    [ignore |-> line.minus, force |-> line.plus \/ reHasMAKE(line)]

\* close(code, ignore, resolve, reject)
close(code, ignore) == IF code # 0 /\ ~ignore THEN "rejected" ELSE "resolved"

NoShell == [recipe |-> <<>>, mode |-> "normal", oneshell |-> FALSE, win32 |-> FALSE,
            pc |-> "resolved", at |-> 0, spawned |-> {}, tmpFile |-> FALSE,
            wrote |-> FALSE]

NewShell(recipe, mode, oneshell, win32) ==
    [recipe |-> recipe, mode |-> mode, oneshell |-> oneshell, win32 |-> win32,
     pc |-> "start", at |-> 1, spawned |-> {}, tmpFile |-> FALSE, wrote |-> FALSE]

\* the .ONESHELL branch is taken for recipes of more than one line
asScript(sh) == sh.oneshell /\ Len(sh.recipe) > 1

\* .ONESHELL branch: the whole recipe is one script, spawned in normal mode,
\* or when the first line is forced, or when any line refers to $(MAKE);
\* on win32 the script is first written to a temporary file
RunScript ==
    LET first == parseRecipeLine(shell.recipe[1])
        go    == \/ shell.mode = "normal"
                 \/ first.force
                 \/ \E l \in DOMAIN shell.recipe : reHasMAKE(shell.recipe[l])
    IN
    /\ shell.pc = "start"
    /\ asScript(shell)
    /\ shell' = IF go
                THEN [shell EXCEPT !.pc = "script",
                                   !.spawned = DOMAIN shell.recipe,
                                   !.tmpFile = shell.win32,
                                   !.wrote = shell.win32]
                ELSE [shell EXCEPT !.pc = "resolved"]
    /\ UNCHANGED <<vm, gs, sc, cp, inc, rt, ex, core, pass, make, tree0, goals, opt, requested, visited, tasks, running, waiting,
                   mtime, statCache, runStatus, holders>>

\* the script's 'close' event: the temporary file is unlinked
ScriptClose(code) ==
    /\ shell.pc = "script"
    /\ shell' = [shell EXCEPT !.pc = close(code, parseRecipeLine(shell.recipe[1]).ignore),
                              !.tmpFile = FALSE]
    /\ UNCHANGED <<vm, gs, sc, cp, inc, rt, ex, core, pass, make, tree0, goals, opt, requested, visited, tasks, running, waiting,
                   mtime, statCache, runStatus, holders>>

\* the position after line sh.at has been dealt with
afterLine(sh) ==
    IF sh.at = Len(sh.recipe)
    THEN [sh EXCEPT !.pc = "resolved"]
    ELSE [sh EXCEPT !.pc = "loop", !.at = sh.at + 1]

\* line-by-line branch, one iteration: the line is spawned in normal mode or
\* when it is forced
RunLine ==
    LET c == parseRecipeLine(shell.recipe[shell.at]) IN
    /\ shell.pc \in {"start", "loop"}
    /\ ~asScript(shell)
    /\ shell' = IF shell.mode = "normal" \/ c.force
                THEN [shell EXCEPT !.pc = "line", !.spawned = @ \cup {shell.at}]
                ELSE afterLine(shell)
    /\ UNCHANGED <<vm, gs, sc, cp, inc, rt, ex, core, pass, make, tree0, goals, opt, requested, visited, tasks, running, waiting,
                   mtime, statCache, runStatus, holders>>

\* the line's 'close' event
LineClose(code) ==
    LET c == parseRecipeLine(shell.recipe[shell.at]) IN
    /\ shell.pc = "line"
    /\ shell' = IF close(code, c.ignore) = "rejected"
                THEN [shell EXCEPT !.pc = "rejected"]
                ELSE afterLine(shell)
    /\ UNCHANGED <<vm, gs, sc, cp, inc, rt, ex, core, pass, make, tree0, goals, opt, requested, visited, tasks, running, waiting,
                   mtime, statCache, runStatus, holders>>

\* ------------------------------------------------------------------------
\* MakefileCore: variables, scopes and expansion
\* ------------------------------------------------------------------------
\* A text is a sequence of tokens: the words "a" and "b", the space " ", and
\* the references "$(X)" and "$(Y)".
VarNames == {"X", "Y"}
IsRef(tok)   == tok \in {"$(X)", "$(Y)"}
RefName(tok) == IF tok = "$(X)" THEN "X" ELSE "Y"

\* VariableValue; origin "undefined" stands for a name the Map does not hold
VariableValue(value, origin, recurse, priv) ==
    [value |-> value, origin |-> origin, recurse |-> recurse, priv |-> priv]
NoVar == VariableValue(<<>>, "undefined", FALSE, FALSE)
NoVariables == [n \in VarNames |-> NoVar]

\* Map.has(name)
has(m, name) == m[name].origin # "undefined"

\* the recursion guard of expand
DepthLimit == 50

\* ExpanderClass.expand and expandOne over the variables vs, as the text they
\* return: a reference gives the value of the variable, expanded again when
\* it is recursive.  depth is the value of the counter when expand is
\* entered: expand raises it and lowers it again before its first await, and
\* expandOne expands the value after an await, so the counter is back at the
\* same number for every value that is expanded.  (Evaluated only over stores
\* without cyclic references; ExpandCall and ExpandOneResume step through any
\* store.)
RECURSIVE expand(_, _, _)
expandOne(vs, name, depth) ==
    LET val == IF has(vs, name) THEN vs[name].value ELSE <<>> IN
    IF has(vs, name) /\ vs[name].recurse THEN expand(vs, val, depth) ELSE val

expand(vs, input, depth) ==
    IF depth > DepthLimit THEN input
    ELSE IF input = <<>> THEN <<>>
    ELSE (IF IsRef(Head(input))
          THEN expandOne(vs, RefName(Head(input)), depth)
          ELSE << Head(input) >>) \o expand(vs, Tail(input), depth)

\* ExpanderClass.with(context): the entries of context replace those of the
\* same name
with(vs, context) == [n \in VarNames |-> IF has(context, n) THEN context[n] ELSE vs[n]]

\* ExpanderClass.withoutPrivate(): the entries marked priv are dropped
withoutPrivate(vs) == [n \in VarNames |-> IF vs[n].priv THEN NoVar ELSE vs[n]]

NoLast == [kind |-> "none", name |-> "X", op |-> "", value |-> <<>>, origin |-> "file",
           scoped |-> FALSE, priv |-> FALSE]
NoSeen == [done |-> FALSE, target |-> [n \in VarNames |-> <<>>],
           dep |-> [n \in VarNames |-> <<>>]]

\* variables: the global Map; scope: make.scopes['T']; n: directives read;
\* last: the directive read last; seen: what $(X) and $(Y) expand to in the
\* recipe of T and in the recipe of a prerequisite of T
NewCore(variables, envOverrides) ==
    [variables |-> variables, scope |-> NoVariables, envOverrides |-> envOverrides,
     n |-> 0, last |-> NoLast, seen |-> NoSeen]
NoCore == NewCore(NoVariables, FALSE)

\* setVariable(name, op, value, origin, scope, priv) on the Maps of c; scoped
\* tells whether a scope (that of T) was passed
setVariable(c, name, op, value, origin, scoped, priv) ==
    LET exp   == IF scoped THEN with(c.variables, c.scope) ELSE c.variables
        scope == IF scoped THEN c.scope ELSE c.variables
        old   == scope[name]
        org   == IF old.origin = "environment" /\ origin = "override"
                 THEN "environment override" ELSE origin
        new   == CASE op \in {":", "::"} ->
                        VariableValue(expand(exp, value, 0), org, FALSE, priv)
                   [] op = "?" ->
                        IF ~has(scope, name)
                        THEN VariableValue(value, org, TRUE, FALSE) ELSE old
                   [] op = "+" ->
                        IF ~has(scope, name)
                        THEN VariableValue(value, org, TRUE, priv)
                        ELSE [old EXCEPT !.value =
                                 @ \o <<" ">> \o (IF old.recurse THEN expand(exp, value, 0)
                                                                ELSE value)]
                   [] OTHER ->
                        VariableValue(value, org, TRUE, priv)
        set   == [scope EXCEPT ![name] = new]
    IN  IF old.origin = "command line" /\ origin # "override" THEN c
        ELSE IF old.origin = "environment" /\ origin # "override" /\ c.envOverrides THEN c
        ELSE IF scoped THEN [c EXCEPT !.scope = set]
        ELSE [c EXCEPT !.variables = set]

\* the texts an assignment to X or to Y can carry
Values(name) == IF name = "X" THEN { <<"a">>, <<"$(Y)">> } ELSE { <<"b">> }

\* parse reads a variable assignment, global or specific to T; the assignments
\* to Y are the plain global ones
SetVariable(name, op, value, origin, scoped, priv) ==
    /\ core.n < MaxOps
    /\ ~core.seen.done
    /\ name = "Y" => (op = "=" /\ origin = "file" /\ ~scoped)
    /\ priv => scoped
    /\ core' = [setVariable(core, name, op, value, origin, scoped, priv) EXCEPT
                    !.n = @ + 1,
                    !.last = [kind |-> "assign", name |-> name, op |-> op, value |-> value,
                              origin |-> origin, scoped |-> scoped, priv |-> priv]]
    /\ UNCHANGED <<vm, gs, sc, cp, inc, rt, ex, pass, shell, make, tree0, goals, opt, requested, visited, tasks, running,
                   waiting, mtime, statCache, runStatus, holders>>

\* parse reads `undefine name`: mf.variables.delete(name)
Undefine(name) ==
    /\ core.n < MaxOps
    /\ ~core.seen.done
    /\ core' = [core EXCEPT !.variables[name] = NoVar,
                            !.n = @ + 1,
                            !.last = [NoLast EXCEPT !.kind = "undefine", !.name = name]]
    /\ UNCHANGED <<vm, gs, sc, cp, inc, rt, ex, pass, shell, make, tree0, goals, opt, requested, visited, tasks, running,
                   waiting, mtime, statCache, runStatus, holders>>

\* run builds T and a prerequisite of T that has no scope of its own:
\* buildTarget(T, make) expands T's recipe under make.with(getScope(T)), and
\* buildRule hands scope.withoutPrivate() to buildTarget(prerequisite)
BuildWithScopes ==
    LET scopeT      == with(core.variables, core.scope)
        scopeNoPriv == withoutPrivate(scopeT)
        scopeDep    == with(scopeNoPriv, NoVariables)
        ref(n)      == IF n = "X" THEN <<"$(X)">> ELSE <<"$(Y)">>
    IN
    /\ ~core.seen.done
    /\ core' = [core EXCEPT !.seen = [done   |-> TRUE,
                                      target |-> [n \in VarNames |-> expand(scopeT, ref(n), 0)],
                                      dep    |-> [n \in VarNames |-> expand(scopeDep, ref(n), 0)]]]
    /\ UNCHANGED <<vm, gs, sc, cp, inc, rt, ex, pass, shell, make, tree0, goals, opt, requested, visited, tasks, running,
                   waiting, mtime, statCache, runStatus, holders>>

\* ------------------------------------------------------------------------
\* variable records shared between the Maps of the makefile and of the run
\* ------------------------------------------------------------------------
\* A Map holds references to VariableValue objects: a Map is modelled as a
\* function from names to record numbers (NoRef = the name is not a key), and
\* the objects as the function recs from record numbers to their fields.
\* The parser creates four objects at most: X and .EXTRA_PREREQS of
\* mf.variables, X and .EXTRA_PREREQS of one target-specific Map.
ScopeNames   == {"X", ".EXTRA_PREREQS"}
ScopeTargets == {"T", "A"}
NoRef        == 0
GlobalRef(n) == IF n = "X" THEN 1 ELSE 2
ScopedRef(n) == IF n = "X" THEN 3 ELSE 4
RecIds       == {GlobalRef(n) : n \in ScopeNames} \cup {ScopedRef(n) : n \in ScopeNames}
NoRefs       == [n \in ScopeNames |-> NoRef]

\* the keys of make.scopes the parser can have left: none, `T: ...`, `T A: ...`
ScopeKeys == { <<>>, <<"T">>, <<"T", "A">> }

\* ExpanderClass.with(context) on Maps of references: a new Map with the
\* entries of this.variables, replaced by those of context; the parent itself
\* when context is undefined
withRefs(variables, context) ==
    IF context = NoRefs THEN variables
    ELSE [n \in ScopeNames |-> IF context[n] # NoRef THEN context[n] ELSE variables[n]]

\* ExpanderClass.withoutPrivate() on a Map of references: a new Map without
\* the entries whose object has priv set
withoutPrivateRefs(recs, variables) ==
    [n \in ScopeNames |-> IF variables[n] # NoRef /\ recs[variables[n]].priv THEN NoRef
                          ELSE variables[n]]

\* buildRule: extra = scope.get('.EXTRA_PREREQS'); if (extra) extra.priv = true
markExtra(recs, scope) ==
    IF scope[".EXTRA_PREREQS"] # NoRef
    THEN [recs EXCEPT ![scope[".EXTRA_PREREQS"]].priv = TRUE]
    ELSE recs

\* recs: the VariableValue objects; variables: mf.variables; exactScopes: the
\* Map of each target that has one; scope, scopeNoPriv: the Maps buildTarget
\* and buildRule made for each target built; last: the build made last
NewRecords(recs, variables, exactScopes) ==
    [recs |-> recs, variables |-> variables, exactScopes |-> exactScopes,
     scope |-> [t \in ScopeTargets |-> NoRefs],
     scopeNoPriv |-> [t \in ScopeTargets |-> NoRefs],
     built |-> {}, last |-> [target |-> "", parent |-> ""]]
NoRecords ==
    NewRecords([i \in RecIds |-> NoVar], NoRefs, [t \in ScopeTargets |-> NoRefs])

\* the stores a parse can leave: g = the names set globally, s = the names
\* set in the target-specific Map of the targets of key, p = those of them
\* marked private
ParsedRecords(g, key, s, p) ==
    NewRecords(
        [i \in RecIds |->
            IF \E n \in g : i = GlobalRef(n) THEN VariableValue(<<"a">>, "file", FALSE, FALSE)
            ELSE IF \E n \in s : i = ScopedRef(n)
                 THEN VariableValue(<<"b">>, "file", FALSE, i \in {ScopedRef(n) : n \in p})
            ELSE NoVar],
        [n \in ScopeNames |-> IF n \in g THEN GlobalRef(n) ELSE NoRef],
        [t \in ScopeTargets |->
            IF t \in Range(key)
            THEN [n \in ScopeNames |-> IF n \in s THEN ScopedRef(n) ELSE NoRef]
            ELSE NoRefs])

\* buildTarget(target, parentScope) up to the first await of buildRule:
\* scope = parentScope.with(getScope(target)), the mark on .EXTRA_PREREQS and
\* scopeNoPriv = scope.withoutPrivate(); parentScope is make for a goal and
\* the scopeNoPriv of the target that lists target as a prerequisite
BuildScoped(target, parent) ==
    LET parentScope == IF parent = "make" THEN vm.variables ELSE vm.scopeNoPriv[parent]
        scope       == withRefs(parentScope, vm.exactScopes[target])
        recs1       == markExtra(vm.recs, scope)
    IN
    /\ target \notin vm.built
    /\ parent = "make" \/ parent \in vm.built
    /\ vm' = [vm EXCEPT !.recs = recs1,
                        !.scope[target] = scope,
                        !.scopeNoPriv[target] = withoutPrivateRefs(recs1, scope),
                        !.built = @ \cup {target},
                        !.last = [target |-> target, parent |-> parent]]
    /\ UNCHANGED <<gs, sc, cp, inc, rt, ex, core, pass, shell, make, tree0, goals, opt, requested, visited, tasks,
                   running, waiting, mtime, statCache, runStatus, holders>>

\* ------------------------------------------------------------------------
\* expand, step by step
\* ------------------------------------------------------------------------
\* An item of the text being joined: a token that is final, or a reference
\* whose expandOne is suspended at its first await (live)
Item(tok, live) == [tok |-> tok, live |-> live]

\* the part of expand(input) that runs before its first await, entered with
\* the counter at depth: past the limit the input is returned as it is;
\* otherwise the counter is raised, every reference starts an expandOne (which
\* suspends at once), and the counter is lowered again
expandSync(input, depth) ==
    [items  |-> [k \in DOMAIN input |->
                    Item(input[k], depth <= DepthLimit /\ IsRef(input[k]))],
     warned |-> depth > DepthLimit,
     peak   |-> IF depth > DepthLimit THEN depth ELSE depth + 1]

\* vs: the store; input: the text expand is called on; text: the items joined
\* so far; depth: the counter between steps; peak: the highest value the
\* counter has had; calls: the number of calls of expand made, modulo 2
NoExpansion == [vs |-> NoVariables, input |-> <<>>, text |-> <<>>, depth |-> 0, peak |-> 0,
                pc |-> "done", warned |-> FALSE, calls |-> 0]

NewExpansion(vs, input) ==
    [vs |-> vs, input |-> input, text |-> <<>>, depth |-> 0, peak |-> 0,
     pc |-> "call", warned |-> FALSE, calls |-> 0]

Live(text) == {k \in DOMAIN text : text[k].live}

\* expand(input) is called
ExpandCall ==
    LET r == expandSync(ex.input, ex.depth) IN
    /\ ex.pc = "call"
    /\ ex' = [ex EXCEPT !.text = r.items,
                        !.warned = r.warned,
                        !.peak = r.peak,
                        !.calls = 1 - @,
                        !.pc = IF Live(r.items) = {} THEN "done" ELSE "pending"]
    /\ UNCHANGED <<vm, gs, sc, cp, inc, rt, core, pass, shell, make, tree0, goals, opt, requested, visited, tasks,
                   running, waiting, mtime, statCache, runStatus, holders>>

\* a suspended expandOne resumes: the value of the variable takes the place
\* of the reference, through expand when the variable is recursive
ExpandOneResume(k) ==
    LET name == RefName(ex.text[k].tok)
        val  == IF has(ex.vs, name) THEN ex.vs[name].value ELSE <<>>
        r    == expandSync(val, ex.depth)
        new  == IF has(ex.vs, name) /\ ex.vs[name].recurse
                THEN r.items
                ELSE [j \in DOMAIN val |-> Item(val[j], FALSE)]
        text == Slice(ex.text, 1, k - 1) \o new \o Slice(ex.text, k + 1, Len(ex.text))
    IN
    /\ ex.pc = "pending"
    /\ k \in Live(ex.text)
    /\ ex' = [ex EXCEPT !.text = text,
                        !.warned = @ \/ (has(ex.vs, name) /\ ex.vs[name].recurse /\ r.warned),
                        !.peak = IF has(ex.vs, name) /\ ex.vs[name].recurse /\ r.peak > @
                                 THEN r.peak ELSE @,
                        !.calls = IF has(ex.vs, name) /\ ex.vs[name].recurse
                                  THEN 1 - @ ELSE @,
                        !.pc = IF Live(text) = {} THEN "done" ELSE "pending"]
    /\ UNCHANGED <<vm, gs, sc, cp, inc, rt, core, pass, shell, make, tree0, goals, opt, requested, visited, tasks,
                   running, waiting, mtime, statCache, runStatus, holders>>

\* ------------------------------------------------------------------------
\* Specifications
\* ------------------------------------------------------------------------
\* the goals named on the command line, per makefile: a run asks for the first
\* n of them, n in 1..MaxGoals (run() requests them in any order)
GoalPool == << <<"T", "C", "A">>,      \* MkWait
               <<"T", "B", "A">>,      \* MkNotParallel
               <<"A", "B", "T">>,      \* MkDiamond
               <<"A", "B", "T">>,      \* MkGrouped
               <<"T", "C", "A">>,      \* MkDelete
               <<"T">>,                \* MkDouble
               <<"T", "B", "A">> >>    \* MkSerialExtra

GoalLists(mk) ==
    { Slice(GoalPool[mk], 1, n) : n \in 1..MinOf({MaxGoals, Len(GoalPool[mk])}) }

\* the trees a run starts from: nothing exists, or every file exists with the
\* same stamp; for MkDouble also the tree in which only A and B exist
Trees(mk) ==
    { [t \in Targets |-> s] : s \in {0, 1} }
        \cup (IF mk = 6 THEN { [t \in Targets |-> IF t \in {"A", "B"} THEN 1 ELSE 0] } ELSE {})

\* opt.jobs: serial, or MaxJobs recipes at a time
JobCounts == {1, MaxJobs}

Options(jobs, keepGoing, always, mode) ==
    [jobs |-> jobs, keepGoing |-> keepGoing, always |-> always, mode |-> mode]

\* the state run() starts from, after prepareRules
InitState(mk, g, o, fs) ==
    /\ make = [table |-> prepareRules(EmptyTable, Makefiles[mk].rules),
               extra |-> Makefiles[mk].extra]
    /\ goals = g
    /\ opt = o
    /\ requested = [k \in DOMAIN g |-> [done |-> FALSE, p |-> {}]]
    /\ visited = [n \in Files |-> {}]
    /\ tasks = <<>>
    /\ running = 0
    /\ waiting = <<>>
    /\ mtime = [n \in Files |-> IF n \in Targets THEN fs[n] ELSE 0]
    /\ tree0 = [n \in Files |-> IF n \in Targets THEN fs[n] ELSE 0]
    /\ statCache = clearCaches
    /\ runStatus = "pending"
    /\ holders = [c \in Clients |-> 0]
    /\ pass = 1

InitRun(mk, g, o, fs) ==
    /\ InitState(mk, g, o, fs)
    /\ shell = NoShell
    /\ core = NoCore
    /\ ex = NoExpansion
    /\ rt = NoRules
    /\ inc = NoIncludes
    /\ cp = NoParse
    /\ sc = NoStats
    /\ gs = NoScopes
    /\ vm = NoRecords

\* scheduling runs: every makefile, goal list, jobs and keepGoing, from an
\* empty tree or from a tree in which every file exists with the same stamp
InitSched ==
    \E mk \in IxSched, j \in JobCounts, kg \in BOOLEAN :
        \E g \in GoalLists(mk), fs \in Trees(mk) :
            InitRun(mk, g, Options(j, kg, FALSE, "normal"), fs)

\* timestamp runs: T: A | B with .EXTRA_PREREQS = C over every tree in which
\* the source files A, B and C exist, and over the empty tree
InitStamp ==
    \E al \in BOOLEAN, fs \in [Targets -> 0..MaxTime] :
        /\ \/ \A f \in Targets \ {"T"} : fs[f] > 0
           \/ \A f \in Targets : fs[f] = 0
        /\ InitRun(IxStamp, <<"T">>, Options(1, FALSE, al, "normal"), fs)

Init == InitSched \/ InitStamp

Next ==
    \/ \E k \in DOMAIN goals : RequestGoal(k)
    \/ \E i \in DOMAIN tasks : BuildRulePrereqs(i)
    \/ \E i \in DOMAIN tasks : StatTarget(i)
    \/ \E i \in DOMAIN tasks : Decide(i)
    \/ \E i \in DOMAIN tasks : RecipeSucceed(i)
    \/ \E i \in DOMAIN tasks : RecipeFail(i)
    \/ \E i \in DOMAIN tasks : UnlinkDone(i)
    \/ RunSettle

Spec == Init /\ [][Next]_vars

\* the event loop runs every continuation that is ready, and every recipe
\* that was spawned exits: a step that stays possible is taken
SpecLive == Init /\ [][Next]_vars /\ WF_vars(Next)

\* runs over a rule set with a cycle among the prerequisites: the goals are
\* the target on the cycle, a target off it, or both
CycleGoals(mk) ==
    IF mk = 10 THEN { <<"T">>, <<"B">>, <<"B", "T">>, <<"A", "B">> }
    ELSE { <<"T">>, <<"C">>, <<"C", "T">> }

InitCycle ==
    \E mk \in IxCycle, j \in JobCounts, kg \in BOOLEAN :
        \E g \in CycleGoals(mk), fs \in Trees(mk) :
            InitRun(mk, g, Options(j, kg, FALSE, "normal"), fs)

SpecCycle == InitCycle /\ [][Next]_vars /\ WF_vars(Next)

\* touch runs over the diamond T: A B ; A: C ; B: C from every tree, each
\* followed by a question run; no recipe is spawned in either mode
InitTouch ==
    \E g \in GoalLists(3), fs \in [Targets -> 0..MaxTime] :
        InitRun(3, g, Options(1, FALSE, FALSE, "touch"), fs)

NextTouch ==
    \/ \E k \in DOMAIN goals : RequestGoal(k)
    \/ \E i \in DOMAIN tasks : BuildRulePrereqs(i)
    \/ \E i \in DOMAIN tasks : StatTarget(i)
    \/ \E i \in DOMAIN tasks : Decide(i)
    \/ RunSettle
    \/ Requery

SpecTouch == InitTouch /\ [][NextTouch]_vars

\* every list of up to MaxScopes scopes with different keys
ScopeEntries ==
    { ScopeEntry(key, value) : key \in {"%.o", "f%.o", "%.c", "%", "foo.o", "foo.c"},
                               value \in {"-O1", "-O2"} }

InitScopes ==
    /\ InitState(IxNone, <<>>, Options(1, FALSE, FALSE, "normal"), [t \in Targets |-> 0])
    /\ shell = NoShell
    /\ core = NoCore
    /\ ex = NoExpansion
    /\ rt = NoRules
    /\ inc = NoIncludes
    /\ cp = NoParse
    /\ sc = NoStats
    /\ gs = NoScopes
    /\ vm = NoRecords

\* a makefile is parsed and its targets are built
InitRecords ==
    \E g \in SUBSET ScopeNames, key \in ScopeKeys, s \in SUBSET ScopeNames :
        \E p \in SUBSET s :
            /\ (key = <<>>) = (s = {})
            /\ InitState(IxNone, <<>>, Options(1, FALSE, FALSE, "normal"), [t \in Targets |-> 0])
            /\ shell = NoShell
            /\ core = NoCore
            /\ ex = NoExpansion
            /\ rt = NoRules
            /\ inc = NoIncludes
            /\ cp = NoParse
            /\ sc = NoStats
            /\ gs = NoScopes
            /\ vm = ParsedRecords(g, key, s, p)

NextRecords == \E target \in ScopeTargets, parent \in ScopeTargets \cup {"make"} : BuildScoped(target, parent)

SpecRecords == InitRecords /\ [][NextRecords]_vars

NextScopes ==
    \/ \E e \in ScopeEntries : AddScope(e)
    \/ \E t \in FileNames : AskScope(t)

SpecScopes == InitScopes /\ [][NextScopes]_vars

\* a run followed by a repeated run: every makefile, goal list and job count,
\* without keepGoing
InitTwice ==
    \E mk \in IxTwice, j \in JobCounts :
        \E g \in GoalLists(mk), fs \in Trees(mk) :
            InitRun(mk, g, Options(j, FALSE, FALSE, "normal"), fs)

NextTwice ==
    \/ Next
    \/ Rerun

SpecTwice == InitTwice /\ [][NextTwice]_vars

InitSem ==
    \E j \in JobCounts :
        InitRun(IxNone, <<>>, Options(j, FALSE, FALSE, "normal"),
                [t \in Targets |-> 0])

NextSem ==
    \/ \E c \in Clients : SemAcquire(c)
    \/ \E c \in Clients : SemRelease(c)
    \/ SemPurge

SpecSem == InitSem /\ [][NextSem]_vars

\* recipes of 1..MaxLines lines, run in normal or dry-run mode, with or
\* without .ONESHELL, on either platform
Recipes == UNION { [1..n -> Lines] : n \in 1..MaxLines }

InitRecipe ==
    \E r \in Recipes, m \in {"normal", "dry-run"}, os \in BOOLEAN, w \in BOOLEAN :
        /\ InitState(IxNone, <<>>, Options(1, FALSE, FALSE, m), [t \in Targets |-> 0])
        /\ shell = NewShell(r, m, os, w)
        /\ core = NoCore
        /\ ex = NoExpansion
        /\ rt = NoRules
        /\ inc = NoIncludes
        /\ cp = NoParse
        /\ sc = NoStats
        /\ gs = NoScopes
        /\ vm = NoRecords

NextRecipe ==
    \/ RunScript
    \/ \E code \in {0, 1} : ScriptClose(code)
    \/ RunLine
    \/ \E code \in {0, 1} : LineClose(code)

SpecRecipe == InitRecipe /\ [][NextRecipe]_vars

\* a makefile is parsed and then run: X starts unset, or given on the command
\* line, or taken from the environment; Y starts unset or set by the file
InitCore ==
    \E x \in {"undefined", "command line", "environment"}, y \in BOOLEAN, eo \in BOOLEAN :
        /\ eo => x = "environment"
        /\ InitState(IxNone, <<>>, Options(1, FALSE, FALSE, "normal"), [t \in Targets |-> 0])
        /\ shell = NoShell
        /\ ex = NoExpansion
        /\ rt = NoRules
        /\ inc = NoIncludes
        /\ cp = NoParse
        /\ sc = NoStats
        /\ gs = NoScopes
        /\ vm = NoRecords
        /\ core = NewCore(
               [n \in VarNames |->
                   IF n = "X"
                   THEN IF x = "undefined" THEN NoVar ELSE VariableValue(<<"a">>, x, FALSE, FALSE)
                   ELSE IF y THEN VariableValue(<<"b">>, "file", TRUE, FALSE) ELSE NoVar],
               eo)

NextCore ==
    \/ \E name \in VarNames, op \in {":", "=", "+", "?"}, origin \in {"file", "override"},
          scoped \in BOOLEAN, priv \in BOOLEAN :
          \E value \in Values(name) : SetVariable(name, op, value, origin, scoped, priv)
    \/ \E name \in VarNames : Undefine(name)
    \/ BuildWithScopes

SpecCore == InitCore /\ [][NextCore]_vars

\* expand is called on a text of 1..MaxText tokens over a store in which X
\* and Y are unset or hold one token, as a simple or as a recursive variable
Texts == UNION { [1..n -> {"a", "$(X)", "$(Y)"}] : n \in 1..MaxText }

Stored == {NoVar} \cup { VariableValue(<<tok>>, "file", rec, FALSE) :
                            tok \in {"a", "$(X)", "$(Y)"}, rec \in BOOLEAN }

InitExpand ==
    \E vs \in [VarNames -> Stored], input \in Texts :
        /\ InitState(IxNone, <<>>, Options(1, FALSE, FALSE, "normal"), [t \in Targets |-> 0])
        /\ shell = NoShell
        /\ core = NoCore
        /\ ex = NewExpansion(vs, input)
        /\ rt = NoRules
        /\ inc = NoIncludes
        /\ cp = NoParse
        /\ sc = NoStats
        /\ gs = NoScopes
        /\ vm = NoRecords

NextExpand ==
    \/ ExpandCall
    \/ \E k \in 1..MaxText : ExpandOneResume(k)

SpecExpand == InitExpand /\ [][NextExpand]_vars

\* every continuation of a settled promise is run
SpecExpandLive == SpecExpand /\ WF_vars(NextExpand)

\* rule tables: up to MaxHeaders headers over patterns and file names, then
\* getRule for a file name
WildHeaders ==
    { Header(<<"%.o">>, <<"%.c">>, lines, dc) : lines \in BOOLEAN, dc \in BOOLEAN }
    \cup { Header(<<"%.c">>, <<"%.y">>, TRUE, dc) : dc \in BOOLEAN }
    \cup { Header(<<"f%.o">>, <<"f%.c">>, TRUE, FALSE), Header(<<"%">>, <<>>, TRUE, FALSE) }

ExactHeaders ==
    { Header(<<"foo.o">>, ps, lines, FALSE) : ps \in {<<>>, <<"foo.c">>}, lines \in BOOLEAN }
    \cup { Header(<<"foo.c">>, <<"foo.y">>, lines, FALSE) : lines \in BOOLEAN }
    \cup { Header(<<"foo.o">>, <<"foo.c">>, TRUE, TRUE), Header(<<"foo.o", "foo.c">>, <<"foo.y">>, TRUE, FALSE) }

Disks == { {"foo.y"}, {"foo.y", "foo.c"}, {"foo.y", "foo.o"} }

InitRules ==
    \E d \in Disks :
        /\ InitState(IxNone, <<>>, Options(1, FALSE, FALSE, "normal"), [t \in Targets |-> 0])
        /\ shell = NoShell
        /\ core = NoCore
        /\ ex = NoExpansion
        /\ rt = NewRules(d)
        /\ inc = NoIncludes
        /\ cp = NoParse
        /\ sc = NoStats
        /\ gs = NoScopes
        /\ vm = NoRecords

NextRules ==
    \/ \E h \in WildHeaders \cup ExactHeaders : AddHeader(h)
    \/ \E t \in FileNames : Find(t)
    \/ \E p \in FileNames : FindPrerequisite(p)

SpecRules == InitRules /\ [][NextRules]_vars

\* makefiles of up to MaxIncludes include directives, one file each, over
\* every disk and every way the files can be made
InitIncludes ==
    \E n \in 1..MinOf({MaxIncludes, Len(IncludeFiles)}) :
    \E cs \in [1..n -> {"include", "-include", "sinclude"}],
       d \in SUBSET Range(IncludeFiles),
       r \in [Range(IncludeFiles) -> {"none", "ok", "fails"}] :
        /\ d \subseteq {IncludeFiles[k] : k \in 1..n}
        /\ \A k \in (n + 1)..Len(IncludeFiles) : r[IncludeFiles[k]] = "none"
        /\ InitState(IxNone, <<>>, Options(1, FALSE, FALSE, "normal"), [t \in Targets |-> 0])
        /\ shell = NoShell
        /\ core = NoCore
        /\ ex = NoExpansion
        /\ rt = NoRules
        /\ inc = NewIncludes([k \in 1..n |-> Directive(cs[k], IncludeFiles[k])], d, r)
        /\ cp = NoParse
        /\ sc = NoStats
        /\ gs = NoScopes
        /\ vm = NoRecords

NextIncludes ==
    \/ ParseInclude
    \/ BuildDeferred
    \/ Reinclude
    \/ IncludeSettle

SpecIncludes == InitIncludes /\ [][NextIncludes]_vars

\* every text of up to MaxSource lines
InitParse ==
    \E n \in 1..MaxSource : \E lines \in [1..n -> SourceLines] :
        /\ InitState(IxNone, <<>>, Options(1, FALSE, FALSE, "normal"), [t \in Targets |-> 0])
        /\ shell = NoShell
        /\ core = NoCore
        /\ ex = NoExpansion
        /\ rt = NoRules
        /\ inc = NoIncludes
        /\ cp = NewParse(lines)
        /\ sc = NoStats
        /\ gs = NoScopes
        /\ vm = NoRecords

NextParse == ParseLine

SpecParse == InitParse /\ [][NextParse]_vars

\* A in assumeNew and B in assumeOld, each named relatively, absolutely or
\* not at all, over every pair of stamps from 2 on (so above the synthetic 1)
InitStats ==
    \E new \in SUBSET {Relative("A"), Absolute("A")}, old \in SUBSET {Relative("B"), Absolute("B")},
       st \in [StatFiles -> 2..(MaxTime + 1)] :
        /\ InitState(IxNone, <<>>, Options(1, FALSE, FALSE, "normal"), [t \in Targets |-> 0])
        /\ shell = NoShell
        /\ core = NoCore
        /\ ex = NoExpansion
        /\ rt = NoRules
        /\ inc = NoIncludes
        /\ cp = NoParse
        /\ sc = NewStats(new, old, st)
        /\ gs = NoScopes
        /\ vm = NoRecords

NextStats ==
    \/ \E f \in StatFiles : StatModTime(f)
    \/ StatClearCaches
    \/ \E c \in [key : Paths, value : {1, Infinity}] : StatSet(c)

SpecStats == InitStats /\ [][NextStats]_vars

\* ------------------------------------------------------------------------
\* Properties
\* ------------------------------------------------------------------------
TaskIds == DOMAIN tasks

BuildsOf(x)       == {i \in TaskIds : tasks[i].target = x}
RecipeStartsOf(x) == {i \in TaskIds : tasks[i].target = x /\ tasks[i].started}
Started(x)        == RecipeStartsOf(x) # {}
RecipeRunning(x)  == \E i \in TaskIds : tasks[i].target = x /\ tasks[i].pc \in {"run", "unlink"}
Requested(x)      == visited[x] # {}
Settled(x)        == /\ visited[x] # {}
                     /\ Rejected(tasks, visited[x]) \/ Resolved(tasks, visited[x])

\* C1: the recipe of a target that is not a double-colon target is started at
\* most once in a run, and there is at most one build of it: every request
\* after the first is answered with the promise already in the visited map.
C1_RecipeAtMostOnce ==
    \A x \in Files :
        ~exactRules[x].array =>
            /\ Cardinality(BuildsOf(x)) <= 1
            /\ Cardinality(RecipeStartsOf(x)) <= 1

\* C1 witness: the recipe of C has started while two other builds await the
\* promise of C
C1_Witness ==
    \E k \in TaskIds, i \in TaskIds, j \in TaskIds :
        /\ i # j
        /\ tasks[k].started
        /\ ~exactRules[tasks[k].target].array
        /\ k \in tasks[i].batch
        /\ k \in tasks[j].batch

\* the grouped rules of the table: Rule objects with a targets list
GroupedRules == {k \in DOMAIN heap : heap[k].targets # <<>>}

\* C2: when every target of a grouped rule has been requested, the rule's
\* recipe has been invoked at most once and all its targets hold the same
\* promise in the visited map.
C2_GroupedOnce ==
    \A k \in GroupedRules :
        /\ Cardinality({i \in TaskIds : tasks[i].rule.id = k /\ tasks[i].started}) <= 1
        /\ \A a \in Range(heap[k].targets), b \in Range(heap[k].targets) :
              Requested(a) /\ Requested(b) => visited[a] = visited[b]

\* C3: the number of locks that were granted and not yet released never
\* exceeds max, after any sequence of acquire, release and purge.
C3_HoldersBounded ==
    Cardinality({c \in Clients : holders[c] = 1}) <= opt.jobs

\* the tasks that hold a job slot: acquired and not yet released
SlotHolders == {i \in TaskIds : tasks[i].acq > tasks[i].rel}

\* C4: a task acquires a slot at most once, holds it exactly while its recipe
\* step is in progress (recipe running or unlink pending) and has released it
\* exactly once when it is done, on every path out of the recipe; `running`
\* counts exactly the holders, and when every build has settled no slot is
\* held and nobody waits for one.
C4_SlotReleasedOnce ==
    /\ \A i \in TaskIds :
          /\ tasks[i].acq <= 1
          /\ tasks[i].rel <= tasks[i].acq
          /\ tasks[i].pc \in {"run", "unlink"} <=> tasks[i].acq = 1 /\ tasks[i].rel = 0
          /\ tasks[i].pc = "done" => tasks[i].rel = tasks[i].acq
    /\ running = Cardinality(SlotHolders)
    /\ (\A i \in TaskIds : tasks[i].pc = "done") => running = 0 /\ waiting = <<>>

\* C4 witness: every build has settled; one recipe succeeded and one failed
\* and went through the .DELETE_ON_ERROR unlink, and both gave their slot back
C4_Witness ==
    /\ \A i \in TaskIds : tasks[i].pc = "done"
    /\ running = 0
    /\ \E i \in TaskIds : tasks[i].unlinked /\ tasks[i].acq = 1 /\ tasks[i].rel = 1
    /\ \E j \in TaskIds : /\ tasks[j].started /\ ~tasks[j].failed
                          /\ tasks[j].acq = 1 /\ tasks[j].rel = 1

\* the builds of rules whose prerequisite list contains .WAIT
WaitBuilds == {i \in TaskIds : WAIT \in Range(tasks[i].rule.prerequisites)}

\* every word a rule asks buildTarget for
AllPrereqs(t) ==
    (Range(t.rule.prerequisites) \cup Range(t.rule.orderOnly) \cup Range(extraPrereqs(t))) \ {WAIT}

\* x is asked for by nobody but build i: it is not a goal and no other build
\* lists it
OnlyVia(i, x) ==
    /\ x \notin Range(goals)
    /\ \A j \in TaskIds \ {i} : x \notin AllPrereqs(tasks[j])

\* for build i, the pairs <<a, c>> with a listed before and c after some .WAIT
AcrossWait(i) ==
    LET pre == tasks[i].rule.prerequisites
        ix  == DOMAIN pre
    IN { <<pre[mn[1]], pre[mn[2]]>> : mn \in
           { xy \in ix \X ix :
               /\ pre[xy[1]] # WAIT /\ pre[xy[2]] # WAIT
               /\ \E w \in ix : pre[w] = WAIT /\ xy[1] < w /\ w < xy[2] } }

\* C5 as stated: once T is being built, no recipe of a prerequisite listed
\* after a .WAIT has started unless the build of every prerequisite listed
\* before that .WAIT has settled, whatever the goals.
C5_WaitAnyGoals ==
    \A i \in WaitBuilds : \A ac \in AcrossWait(i) :
        Started(ac[2]) => Settled(ac[1])

\* C5 amended: the same, for a later prerequisite that is requested only
\* through T's list and only after that .WAIT.
C5_WaitOrdering ==
    \A i \in WaitBuilds : \A ac \in AcrossWait(i) :
        /\ OnlyVia(i, ac[2])
        /\ \A xy \in AcrossWait(i) : xy[1] # ac[2]
        => (Started(ac[2]) => Settled(ac[1]))

\* C5 witness: the recipe of C (after the .WAIT of T: A B .WAIT C) has started,
\* A and B have settled, and C was requested by T only
C5_Witness ==
    \E i \in WaitBuilds : \E ac \in AcrossWait(i) :
        /\ OnlyVia(i, ac[2])
        /\ Started(ac[2])
        /\ \A xy \in AcrossWait(i) : Settled(xy[1])
        /\ opt.jobs > 1

\* the builds of targets in .NOTPARALLEL
SerialBuilds == {i \in TaskIds : specialHas(".NOTPARALLEL", tasks[i].target)}

\* the prerequisites the .NOTPARALLEL loop builds
SerialPrereqs(i) == Range(tasks[i].rule.prerequisites) \ {WAIT}

\* C6 as stated: while a target of .NOTPARALLEL is built, the recipes of two
\* different prerequisites of it are never running at the same time, whatever
\* the goals.
C6_SerialAnyGoals ==
    \A i \in SerialBuilds : \A a \in SerialPrereqs(i), b \in SerialPrereqs(i) :
        a # b => ~(RecipeRunning(a) /\ RecipeRunning(b))

\* C6 amended: the same, for two prerequisites that are requested only through
\* the rule of T.
C6_SerialOrdering ==
    \A i \in SerialBuilds : \A a \in SerialPrereqs(i), b \in SerialPrereqs(i) :
        a # b /\ OnlyVia(i, a) /\ OnlyVia(i, b) => ~(RecipeRunning(a) /\ RecipeRunning(b))

\* C6 witness: with two job slots, the recipe of the second prerequisite runs
\* after the build of the first has settled, both requested by T only
C6_Witness ==
    \E i \in SerialBuilds : \E a \in SerialPrereqs(i), b \in SerialPrereqs(i) :
        /\ a # b /\ OnlyVia(i, a) /\ OnlyVia(i, b)
        /\ opt.jobs > 1
        /\ Settled(a) /\ Started(a)
        /\ RecipeRunning(b)

\* a task whose rebuild decision said that the recipe is needed
RecipeDue(t) == t.started \/ t.pc = "waiting"

\* C7: in normal mode, a task that has taken its rebuild decision runs its
\* recipe iff always is set, or the target's timestamp is 0 (missing or
\* phony), or a normal prerequisite or an .EXTRA_PREREQS entry has a timestamp
\* greater than the target's; order-only prerequisites are not looked at.
\* Timestamps are the answers of modTime at the decision.
C7_RebuildDecision ==
    \A i \in TaskIds :
        LET t == tasks[i] IN
        (opt.mode = "normal" /\ t.decided) =>
            (RecipeDue(t) <=>
                \/ opt.always
                \/ t.seenT = 0
                \/ \E p \in Range(t.rule.prerequisites) \cup Range(extraPrereqs(t)) :
                        t.view[p] > t.seenT)

\* C7 witness: an existing target is left alone although an order-only
\* prerequisite is newer than it
C7_Witness ==
    \E i \in TaskIds :
        LET t == tasks[i] IN
        /\ t.decided /\ ~RecipeDue(t) /\ ~opt.always
        /\ t.seenT > 0
        /\ \E p \in Range(t.rule.orderOnly) : t.view[p] > t.seenT

\* C8: with keepGoing false, once a recipe has failed no recipe starts that
\* had not started before.
C8_NoStartAfterFailure ==
    [][ (~opt.keepGoing /\ \E i \in TaskIds : tasks[i].failed) =>
            \A j \in DOMAIN tasks' :
                tasks'[j].started => (j \in TaskIds /\ tasks[j].started) ]_vars

\* C9: with keepGoing true, a run in which a recipe failed does not end with
\* the result of a run in which every recipe succeeded.
C9_FailureReported ==
    (opt.keepGoing /\ runStatus # "pending" /\ \E i \in TaskIds : tasks[i].failed)
        => runStatus # "true"

\* C10: a target whose recipe failed and which is in .DELETE_ON_ERROR and
\* neither in .PRECIOUS nor in .SECONDARY has been unlinked when the failure
\* has been handled, whatever keepGoing is; no other target is ever unlinked.
C10_DeleteOnError ==
    \A i \in TaskIds :
        LET t == tasks[i] IN
        /\ (t.failed /\ t.pc = "done" /\ deleteOnError(t.target)) => t.unlinked
        /\ t.unlinked => deleteOnError(t.target)

\* a recipe was run during the run (in dry-run mode: would have been run)
SomeRecipeRan == \E i \in TaskIds : tasks[i].started

\* C11: a run that resolves does so with true if and only if at least one
\* recipe was run; in particular a run in which a recipe ran for a
\* prerequisite of a goal resolves to true.
C11_ResultIffRecipeRan ==
    runStatus \in {"true", "false"} => (runStatus = "true" <=> SomeRecipeRan)

\* the targets declared by double-colon rules
DoubleTargets == {x \in Files : exactRules[x].array}

\* the builds of rule k whose recipe has started
RuleStarts(k) == {i \in TaskIds : tasks[i].rule.id = k /\ tasks[i].started}

\* every build is done and no recipe failed
RunSucceeded ==
    /\ \A i \in TaskIds : tasks[i].pc = "done" /\ ~tasks[i].failed
    /\ runStatus \in {"true", "false"}

\* C12: the recipe of a double-colon rule runs at most once per run, and when
\* every rule of a double-colon target T is out of date (T is missing when the
\* run starts) a successful run has run the recipe of each of them once.
C12_DoubleColonEachOnce ==
    \A x \in DoubleTargets :
        /\ \A k \in Range(exactRules[x].refs) : Cardinality(RuleStarts(k)) <= 1
        /\ (tree0[x] = 0 /\ Requested(x) /\ RunSucceeded) =>
              \A k \in Range(exactRules[x].refs) : Cardinality(RuleStarts(k)) = 1

\* C13: the recipes of the double-colon rules of a target start in the order
\* of their headers: no step starts the recipe of a rule when the recipe of a
\* rule declared after it has already started.
C13_DoubleColonOrder ==
    [][ \A x \in DoubleTargets :
          LET refs == exactRules[x].refs IN
          \A m \in DOMAIN refs, n \in DOMAIN refs :
              (m < n /\ RuleStarts(refs[n]) # {} /\ RuleStarts(refs[m]) = {})
                  => (RuleStarts(refs[m]) = {})' ]_vars

\* C14: in dry-run mode a recipe line that is neither forced ('+') nor refers
\* to $(MAKE) is never spawned, with or without .ONESHELL
C14_DryRunSpawnsOnlyForced ==
    shell.mode = "dry-run" =>
        \A l \in shell.spawned :
            shell.recipe[l].plus \/ shell.recipe[l].hasMAKE

\* C15: a run repeated right after a successful normal-mode run starts no
\* recipe for a target that is not .PHONY
C15_RepeatIsNoOp ==
    pass = 2 =>
        \A i \in TaskIds : tasks[i].started => specialHas(".PHONY", tasks[i].target)

\* C16: a requested target without a rule that does not exist on disk is
\* never reported as built: its build fails, and run() rejects
NoRule(x) == exactRules[x].refs = <<>>

C16_MissingFileFails ==
    \A i \in TaskIds :
        (NoRule(tasks[i].target) /\ mtime[tasks[i].target] = 0 /\ tasks[i].pc = "done")
            => (tasks[i].failed /\ tasks[i].res = "rejected")

\* C17: in the environment of T's recipe, $^ holds every normal prerequisite
\* once, in the order of first occurrence; $+ holds the prerequisite list with
\* its duplicates; $? holds the normal prerequisites that are newer than T, or
\* all of them when T is missing; $| holds the order-only prerequisites; a
\* file that is only in .EXTRA_PREREQS is in none of them.  (.WAIT is left
\* out of the comparison.)
NonWait(s) == SelectSeq(s, LAMBDA w : w # WAIT)

FirstAt(s, w) == CHOOSE k \in DOMAIN s : s[k] = w /\ \A j \in 1..(k - 1) : s[j] # w

EnvBuilt == {i \in TaskIds : tasks[i].pc \in {"waiting", "run"}
                             /\ tasks[i].target \notin DoubleTargets}

C18_PrivateNotInherited ==
    core.seen.done =>
        \A n \in VarNames :
            (has(core.scope, n) /\ core.scope[n].priv)
                => core.seen.dep[n] = expand(core.variables, IF n = "X" THEN <<"$(X)">>
                                                                        ELSE <<"$(Y)">>, 0)

\* C19: a binding given on the command line is kept, and not shadowed in T's
\* scope, by every directive that is not an override; a binding made with
\* override is kept by every plain assignment
KeepsBinding(n) ==
    /\ core'.variables[n] = core.variables[n]
    /\ with(core'.variables, core'.scope)[n] = with(core.variables, core.scope)[n]

C19_OriginPrecedence ==
    [][ \A n \in VarNames :
          /\ (core.variables[n].origin = "command line"
                /\ core'.last.name = n /\ core'.n = core.n + 1
                /\ core'.last.origin # "override") => KeepsBinding(n)
          /\ (core.variables[n].origin = "override"
                /\ core'.last.name = n /\ core'.n = core.n + 1
                /\ core'.last.kind = "assign" /\ ~core'.last.scoped
                /\ core'.last.origin = "file") => KeepsBinding(n) ]_vars

\* C20: += on an unset name does what = does; on a recursive variable it
\* appends a space and the text as written; on a simple variable it appends
\* a space and the expansion of the text
C20_Append ==
    [][ LET l     == core'.last
            m     == IF l.scoped THEN core.scope ELSE core.variables
            m1    == IF l.scoped THEN core'.scope ELSE core'.variables
            old   == m[l.name]
            exp   == IF l.scoped THEN with(core.variables, core.scope) ELSE core.variables
        IN (core'.n = core.n + 1 /\ l.kind = "assign" /\ l.op = "+"
              /\ old.origin \in {"undefined", "file", "override"})
           => IF old.origin = "undefined"
              THEN m1[l.name] = VariableValue(l.value, l.origin, TRUE, l.priv)
              ELSE /\ m1[l.name].recurse = old.recurse
                   /\ m1[l.name].value =
                         old.value \o <<" ">> \o (IF old.recurse THEN l.value
                                                  ELSE expand(exp, l.value, 0)) ]_vars

\* C21: every call of expand terminates: when the references recurse without
\* end the counter passes its limit, a warning is given and the text is
\* returned as it is
C21_ExpandTerminates == <>(ex.pc = "done")

\* the headers read so far that declare a pattern (other than the lone %)
\* matching t, by position; a header's position is its rule's id
MatchingHeaders(t) ==
    {k \in DOMAIN rt.read :
        \E j \in DOMAIN rt.read[k].targets :
            LET p == rt.read[k].targets[j] IN IsWild(p) /\ p # "%" /\ Match(p, t)}

HeaderStem(k, t) == StemOf(rt.read[k].targets[1], t)

DeclaredExactly(t) == \E k \in DOMAIN rt.read : t \in Range(rt.read[k].targets)

ChainMakefile(terminal) ==
    /\ rt.disk = {"foo.y"}
    /\ Range(rt.read) = { Header(<<"%.o">>, <<"%.c">>, TRUE, FALSE),
                          Header(<<"%.c">>, <<"%.y">>, TRUE, terminal) }

\* the rule got for t is the pattern rule of header p, with recipe lines
GotPattern(t, p) ==
    /\ rt.found[t].kind = "pattern"
    /\ rt.read[rt.found[t].rules[1].id].targets = <<p>>
    /\ rt.found[t].rules[1].recipe = "cmds"

\* C23: with "%.o: %.c" and "%.c: %.y" and only foo.y on disk, asking for
\* foo.o takes the "%.o" rule with the prerequisite foo.c, which is made by
\* the "%.c" rule; when the "%.c" rule is terminal the chain is not taken:
\* foo.o does not get the "%.o" rule and foo.c is not made by the "%.c" rule
C23_ImplicitChain ==
    /\ (ChainMakefile(FALSE) /\ rt.goal = "foo.o")
         => /\ GotPattern("foo.o", "%.o")
            /\ rt.found["foo.o"].rules[1].prerequisites = <<"foo.c">>
            /\ rt.found["foo.c"].kind # "unasked" => GotPattern("foo.c", "%.c")
    /\ (ChainMakefile(TRUE) /\ rt.goal = "foo.o")
         => /\ ~GotPattern("foo.o", "%.o")
            /\ ~GotPattern("foo.c", "%.c")

\* the headers read so far that name t among their targets, by position
HeadersOf(t) == {k \in DOMAIN rt.read : t \in Range(rt.read[k].targets)}

\* the prerequisites of the headers from = k on that name t, in order
RECURSIVE Accumulated(_, _)
Accumulated(t, k) ==
    IF k > Len(rt.read) THEN <<>>
    ELSE (IF k \in HeadersOf(t) THEN rt.read[k].prerequisites ELSE <<>>) \o Accumulated(t, k + 1)

\* C24: a single-colon target named by several headers, exactly one of them
\* with recipe lines, has one rule whose prerequisites are those of all its
\* headers and whose recipe is the one with lines, wherever that header stands
C24_HeadersAccumulate ==
    \A t \in FileNames :
        ( /\ Cardinality(HeadersOf(t)) >= 2
          /\ \A k \in HeadersOf(t) : ~rt.read[k].doubleColon
          /\ Cardinality({k \in HeadersOf(t) : rt.read[k].lines}) = 1 )
        => /\ rt.tab.exact[t].refs # <<>>
           /\ ~rt.tab.exact[t].array
           /\ rt.tab.heap[rt.tab.exact[t].refs[1]].recipe = "cmds"
           /\ rt.tab.heap[rt.tab.exact[t].refs[1]].prerequisites = Accumulated(t, 1)

\* the directives whose file is not found when the makefile is read and
\* cannot be made: no rule for it, or a recipe that fails
Unmade(command) ==
    {k \in DOMAIN inc.lines :
        /\ inc.lines[k].command = command
        /\ inc.lines[k].file \notin Range(inc.loaded)
        /\ \E j \in DOMAIN inc.deferredIncludes : inc.deferredIncludes[j].file = inc.lines[k].file
        /\ inc.rule[inc.lines[k].file] # "ok"}

\* C25: once loading and run() are over, an error was raised if an include
\* file of a mandatory include was neither found nor made, and no error was
\* raised if that holds of -include and sinclude files only
C25_IncludeFailure ==
    inc.pc \in {"done", "rejected"} /\ inc.lines # <<>>
    => /\ Unmade("include") # {} => inc.error
       /\ (Unmade("include") = {} /\ Unmade("-include") \cup Unmade("sinclude") # {}) => ~inc.error

\* the number of conditionals open after the first n lines of the text
RECURSIVE OpenAfter(_)
OpenAfter(n) ==
    IF n = 0 THEN 0
    ELSE OpenAfter(n - 1) + (IF StartsWithIf(cp.lines[n]) THEN 1
                             ELSE IF cp.lines[n] = "endif" THEN -1 ELSE 0)

\* line n is an else or an endif that belongs to no open conditional
Stray(n) ==
    /\ StartsWithElse(cp.lines[n]) \/ cp.lines[n] = "endif"
    /\ OpenAfter(n - 1) = 0
    /\ \A m \in 1..(n - 1) : ~(OpenAfter(m - 1) = 0 /\ (StartsWithElse(cp.lines[m]) \/ cp.lines[m] = "endif"))

\* C26: a text with an else or endif that belongs to no open conditional is
\* never parsed to the end without an error, the error names that line, and
\* between two lines the parser's ifdepth is the number of conditionals open
C26_ConditionalDepth ==
    /\ cp.pc = "done" => \A n \in DOMAIN cp.lines : ~Stray(n)
    /\ (cp.pc = "error" /\ cp.error \in {"Unexpected else", "Unexpected endif"}) => Stray(cp.lineNo)
    /\ (cp.pc = "parse" /\ \A n \in 1..(cp.i - 1) : ~Stray(n)) => cp.ifdepth = OpenAfter(cp.i - 1)

\* C27: a stamp read for a file named by a path of assumeNew is Infinity,
\* one read for a file named by a path of assumeOld is 1, whenever it is read
C27_AssumedStamps ==
    \A f \in StatFiles :
        sc.read.file = f
        => /\ (\E p \in sc.assumeNew : resolve(p) = resolve(f)) => sc.read.stamp = Infinity
           /\ (\E p \in sc.assumeOld : resolve(p) = resolve(f)) => sc.read.stamp = 1

\* the normal prerequisites of build i
NormalPrereqs(i) == Range(tasks[i].rule.prerequisites) \ {WAIT}

\* every build of p has returned a value
Finished(p) ==
    /\ visited[p] # {}
    /\ \A k \in visited[p] : tasks[k].pc = "done" /\ tasks[k].res \in {"true", "false"}

\* C28: a build whose recipe has started (it holds or awaits a slot, runs or
\* is over) has normal prerequisites whose builds have all been requested and
\* have all finished, in every scheduling mode and for every jobs value
C28_PrereqsBeforeRecipe ==
    \A i \in TaskIds :
        (tasks[i].started \/ tasks[i].pc \in {"waiting", "run"})
        => \A p \in NormalPrereqs(i) : Finished(p)

\* C28 witness: with more than one job, a recipe runs whose rule has two
\* normal prerequisites, both made by recipes that have run and are over
C28_Witness ==
    \E i \in TaskIds :
        /\ tasks[i].pc = "run"
        /\ opt.jobs > 1
        /\ Cardinality(NormalPrereqs(i)) >= 2
        /\ \A p \in NormalPrereqs(i) :
              Finished(p) /\ \E k \in visited[p] : tasks[k].started

\* C29: the recipe of a build is never started when the recipe of one of the
\* prerequisites of its rule has failed in the run, whatever keepGoing is
C29_NoRecipeAfterFailedPrereq ==
    \A i \in TaskIds :
        tasks[i].started
        => \A p \in Range(tasks[i].rule.prerequisites) \ {WAIT} :
              \A k \in visited[p] : ~tasks[k].failed

\* task i holds a job slot: it has acquired the semaphore and not released it
HoldsSlot(i) == tasks[i].acq > tasks[i].rel

\* C30: every run settles (run() resolves or rejects) when every recipe
\* exits, with one job and with more; and a build that holds a job slot
\* waits neither for a prerequisite nor for a slot
C30_RunSettles ==
    /\ [](\A i \in TaskIds : HoldsSlot(i) => tasks[i].pc \notin {"prereqs", "waiting"})
    /\ <>(runStatus # "pending")

\* C30 witness: a run with one job has settled after three recipes, each of
\* which held the only slot and gave it back
C30_Witness ==
    /\ runStatus # "pending"
    /\ opt.jobs = 1
    /\ Cardinality({i \in TaskIds : tasks[i].started /\ tasks[i].acq = 1 /\ tasks[i].rel = 1}) >= 3
    /\ running = 0

\* C31: a run over a rule set with a prerequisite cycle settles: run()
\* resolves or rejects, also when a target lists itself
C31_CyclicRunSettles == <>(runStatus \in {"true", "false", "rejected"})

\* the order-only prerequisites and the .EXTRA_PREREQS entries of build i
LatePrereqs(i) == Range(tasks[i].rule.orderOnly) \cup Range(extraPrereqs(tasks[i]))

\* C32: a build whose recipe has started has order-only prerequisites and
\* .EXTRA_PREREQS entries whose builds have all settled, under .NOTPARALLEL,
\* with .WAIT and in parallel
C32_OrderOnlyBeforeRecipe ==
    \A i \in TaskIds :
        (tasks[i].started \/ tasks[i].pc \in {"waiting", "run"})
        => \A p \in LatePrereqs(i) : Finished(p)

\* the headers read so far that name t itself as a target
ExactHeadersOf(t) == {k \in DOMAIN rt.read : t \in Range(rt.read[k].targets)}

\* the pattern headers with recipe lines that match t, the lone % included
RecipePatterns(t) ==
    {k \in DOMAIN rt.read :
        rt.read[k].lines /\ IsWild(rt.read[k].targets[1]) /\ Match(rt.read[k].targets[1], t)}

\* every pattern prerequisite of header k, with the stem of t put in, names a
\* file that is on disk or has a header of its own
OughtExist(k, t) ==
    \A p \in Range(rt.read[k].prerequisites) :
        IsWild(p) => LET f == replacePercent(p, HeaderStem(k, t))
                     IN  f \in rt.disk \/ DeclaredExactly(f)

\* C33: a target whose explicit headers all come without recipe lines, and
\* which a pattern rule with recipe lines and existing prerequisites matches,
\* is built by that pattern rule: its recipe and stem, and the prerequisites
\* of the headers together with the pattern rule's
C33_BareHeaderUsesPattern ==
    \A t \in FileNames :
        LET E == ExactHeadersOf(t)
            M == {k \in RecipePatterns(t) : OughtExist(k, t)}
        IN ( /\ rt.found[t].kind # "unasked"
             /\ E # {}
             /\ \A k \in E : ~rt.read[k].lines /\ ~rt.read[k].doubleColon
             /\ M # {} )
           => /\ rt.found[t].kind = "pattern"
              /\ rt.found[t].rules[1].recipe = "cmds"
              /\ \E k \in M : rt.found[t].rules[1].id = k /\ rt.found[t].stem = HeaderStem(k, t)
              /\ \A k \in E : Range(rt.read[k].prerequisites)
                                \subseteq Range(rt.found[t].rules[1].prerequisites)

\* C34: when a target without a header of its own has a matching pattern
\* rule whose pattern prerequisites all ought to exist, the rule findRule
\* selects is such a rule: a candidate with a prerequisite that neither exists
\* nor has a rule is passed over
C34_CandidateOughtExist ==
    \A t \in FileNames :
        ( /\ rt.found[t].kind # "unasked"
          /\ ~DeclaredExactly(t)
          /\ \E k \in RecipePatterns(t) : OughtExist(k, t) )
        => /\ rt.found[t].kind = "pattern"
           /\ OughtExist(rt.found[t].rules[1].id, t)

\* every else, else-if and endif of the text belongs to an open conditional
\* and every conditional is closed
WellNested ==
    /\ \A n \in DOMAIN cp.lines :
          (StartsWithElse(cp.lines[n]) \/ cp.lines[n] = "endif") => OpenAfter(n - 1) > 0
    /\ OpenAfter(Len(cp.lines)) = 0

\* every frame of a stack of conditionals is in a branch that is processed
AllLive(frames) == \A k \in DOMAIN frames : frames[k].live

\* the conditionals open after the first n lines of a well-nested text,
\* outermost first: live = the lines of the current branch are processed,
\* took = a branch of the chain has been chosen
RECURSIVE Frames(_)
Frames(n) ==
    IF n = 0 THEN <<>>
    ELSE LET before == Frames(n - 1)
             line   == cp.lines[n]
             outer  == Slice(before, 1, Len(before) - 1)
             top    == before[Len(before)]
             holds  == line \in {"if1", "elif1"}
         IN IF StartsWithIf(line)
            THEN Append(before, [live |-> AllLive(before) /\ holds, took |-> holds])
            ELSE IF line = "else"
            THEN Append(outer, [live |-> AllLive(outer) /\ ~top.took, took |-> TRUE])
            ELSE IF StartsWithElse(line)
            THEN Append(outer, [live |-> AllLive(outer) /\ ~top.took /\ holds,
                                took |-> top.took \/ holds])
            ELSE IF line = "endif" THEN outer
            ELSE before

\* the recipe lines, assignments and rule headers that are to be processed
Effective ==
    {n \in DOMAIN cp.lines :
        cp.lines[n] \in {"x", "rif", "relse"} /\ AllLive(Frames(n - 1))}

\* C35: in a text whose conditionals are well nested, parse fails on no
\* line, the lines it has handled are lines of the chosen branches, and when
\* it is through it has handled all of them
C35_ChosenBranchOnly ==
    WellNested
    => /\ cp.pc # "error"
       /\ cp.seen \subseteq Effective
       /\ (cp.pc = "done" => cp.seen = Effective)

\* the files a task's rule compares its targets with
StampedPrereqs(i) == Range(compared(tasks[i]))

\* C36: when a touch run has returned, no target of a build it made is
\* missing or older than one of its prerequisites, and the question run that
\* follows it on the same goals answers that nothing is to be done
C36_TouchLeavesUpToDate ==
    /\ (pass = 1 /\ opt.mode = "touch" /\ runStatus \in {"true", "false"})
       => \A i \in TaskIds :
             /\ mtime[tasks[i].target] > 0
             /\ \A p \in StampedPrereqs(i) : mtime[p] <= mtime[tasks[i].target]
    /\ (pass = 2 /\ runStatus # "pending") => runStatus = "false"

\* the scopes whose pattern key matches t
MatchingScopes(t) ==
    {k \in DOMAIN gs.scopes : IsWild(gs.scopes[k].key) /\ Match(gs.scopes[k].key, t)}

\* C37: a target without a scope of its own that is matched by pattern
\* scopes gets the scope of the pattern with the shortest stem
C37_PatternScopeInEffect ==
    \A t \in FileNames :
        LET M == MatchingScopes(t) IN
        (gs.asked = t /\ gs.exactScopes[t] = 0 /\ M # {})
        => /\ gs.got.kind = "scope"
           /\ gs.got.scope \in M
           /\ \A j \in M : Len(StemOf(gs.scopes[gs.got.scope].key, t))
                               <= Len(StemOf(gs.scopes[j].key, t))

\* C38: .WAIT is never built as a target, its stamp is never read for a
\* rebuild decision, and it is in none of $<, $^, $+ and $? of a recipe's
\* environment
C38_WaitIsOnlyAMarker ==
    /\ visited[WAIT] = {}
    /\ \A i \in TaskIds :
          /\ tasks[i].target # WAIT
          /\ tasks[i].view[WAIT] = -1
          /\ tasks[i].auto.first # WAIT
          /\ WAIT \notin Range(tasks[i].auto.caret) \cup Range(tasks[i].auto.plus)
                           \cup Range(tasks[i].auto.query)

\* C39: with and withoutPrivate give a new Map and leave the Map of the
\* parent as it was, and building a target writes no field of a variable
\* object that mf.variables or the Map of another target refers to
SharedRefs(target) ==
    {vm.variables[n] : n \in ScopeNames}
        \cup UNION {{vm.exactScopes[u][n] : n \in ScopeNames} : u \in ScopeTargets \ {target}}
C39_BuildWritesNoSharedRecord ==
    [][ /\ vm'.variables = vm.variables
        /\ vm'.exactScopes = vm.exactScopes
        /\ \A u \in vm.built : /\ vm'.scope[u] = vm.scope[u]
                               /\ vm'.scopeNoPriv[u] = vm.scopeNoPriv[u]
        /\ \A i \in SharedRefs(vm'.last.target) \ {NoRef} : vm'.recs[i] = vm.recs[i] ]_vars

====
